---------------------------- MODULE Spec2Model ----------------------------
(***************************************************************************)
(* Third Uploader: the avatar publication pipeline.                        *)
(*                                                                         *)
(*   bundle.ts        (src/unnamed/part_002)  reducer, useBundle, unpack,  *)
(*                                            readyBundle                  *)
(*   app.tsx          (src/unnamed/part_003)  App, Avatar                  *)
(*   upload-avatar.ts (src/src/upload-avatar.ts) useUpload,                *)
(*                                            uploadFileToVRChat           *)
(*                                                                         *)
(* Every await of the code is a step: a step is the arrival of the answer  *)
(* the task waits for, followed by everything the task then does up to its *)
(* next await (the next request is issued in the same step).  The Service, *)
(* the native commands and the user are the environment: their answers are *)
(* drawn from small sets.                                                  *)
(***************************************************************************)
EXTENDS Integers, Sequences, FiniteSets, TLC

(***************************************************************************)
(* Bounds of the model.                                                    *)
(***************************************************************************)
\* the largest number of parts of a multipart upload that is explored
MaxParts == 2
\* the number of archives selected in one run of the application
MaxLoads == 1
\* publications of the same file in a row
MaxPublications == 2
\* the forms (login, code) submitted in one run of the application
MaxSubmits == 2
\* the times Log out is clicked in one run of the application
MaxLogouts == 1

(***************************************************************************)
(* Program constants.                                                      *)
(***************************************************************************)
\* upload-avatar.ts:113   const partSize = 10 * 1024 * 1024
partSize == 10485760
\* upload-avatar.ts:67    assetVersion: 1
AssetVersion == 1

\* null / undefined; every nullable value of the model is a record
NULL == [null |-> TRUE]

\* bundle.ts:9  PLATFORMS, in the order unpack() inserts them (bundle.ts:187)
PLATFORMS == <<"windows", "android", "ios">>
Platform == {PLATFORMS[i] : i \in 1..Len(PLATFORMS)}
PlatformOrder(p) == CHOOSE i \in 1..Len(PLATFORMS) : PLATFORMS[i] = p

\* api.ts:278  FileVersion.status
Statuses == {"waiting", "complete", "none", "queued"}
\* api.ts:263  FileData.category
Categories == {"multipart", "queued", "simple"}

(***************************************************************************)
(* Small helpers.                                                          *)
(***************************************************************************)
Last(s) == s[Len(s)]
\* Math.ceil(a / b) for a >= 0, b > 0
Ceil(a, b) == (a + b - 1) \div b
FirstByOrder(S) == CHOOSE p \in S : \A q \in S : PlatformOrder(p) <= PlatformOrder(q)


(***************************************************************************)
(* State.                                                                  *)
(***************************************************************************)
VARIABLES
    \* bundle.ts: the reducer state of useBundle (BundleState, bundle.ts:18)
    bundlePath,     \* state.bundlePath: NULL or the selected archive
    bundle,         \* state.bundle: NULL or the unpacked Bundle
    transcodes,     \* state.transcodes: the platforms that have a promise recorded
    error,          \* state.error: NULL or the message of the load error
    \* bundle.ts: the promise chain started by the effect of useBundle
    loadpc,         \* "idle" | "unpack" | "validate" | "transcodes"
    loadArg,        \* the archive the running chain was started for (NULL: none runs)
    loadDir,        \* the directory unpack_bundle made for the running chain
    tstatus,        \* the transcode promise of each platform
    torder,         \* the platforms whose transcode has answered, in that order
    service,        \* the Service: the avatar of the blueprint id, the files made
    \* app.tsx: App
    showBundle,     \* useState showBundle
    showTimers,     \* pending setTimeout of the [bundle] effect
    finishTimers,   \* pending setTimeout of handleFinish
    closed,         \* the window was asked to close
    \* the file system and the number of selections so far
    dirs,           \* the unpack directories that exist
    removed,        \* the unpack directories removeDir was called on
    loads,
    \* upload-avatar.ts
    pub,            \* one run of useUpload/upload
    job,            \* one run of uploadFileToVRChat and its two tasks
    \* auth.tsx: the state of AuthProvider (auth.tsx:92-102)
    user,           \* useState user: NULL or the User
    authToken,      \* useState authToken: NULL, Undefined or an auth cookie
    twoFactorType,  \* useState twoFactorType: NullString | "emailotp" | "totp"
    authError,      \* useState error: NullString or the message shown in the dialog
    onLogin,        \* useState onLogin: a handler is registered
    loginOpen,      \* useState loginOpen
    authLoading,    \* useState loading
    username,       \* useState username: the Username/Email input
    \* auth.tsx: the asynchronous functions of AuthProvider that are running
    launch,         \* the load() of the effect at launch (auth.tsx:107-122)
    form,           \* login() or twoFactor() (auth.tsx:133-185)
    out,            \* logout() (auth.tsx:187-197)
    \* what AuthProvider talks to
    tokens,         \* the secret store: the Token saved for each username
    config,         \* config.json: NULL (no file) or [lastUsername]
    account,        \* the Service: the auth cookies issued so far, and the calls made
    authLog,        \* what was done so far: writes, logout requests, handler calls
    \* upload-avatar.ts: uploadFile
    parts,          \* fileMetadata.size and the requests of the loop over its parts
    \* api.ts: the Set-Cookie headers of a response and what is read from them
    jar

appVars == <<bundlePath, bundle, transcodes, error, loadpc, loadArg, loadDir,
             showBundle, showTimers, closed, dirs, removed, loads>>
authVars == <<user, authToken, twoFactorType, authError, onLogin, loginOpen, authLoading,
              username, launch, form, out, tokens, config, account, authLog>>
\* the variables of the bundle and of its publication
uploaderVars == <<bundlePath, bundle, transcodes, error, loadpc, loadArg, loadDir, tstatus,
                  torder, service, showBundle, showTimers, finishTimers, closed, dirs,
                  removed, loads, pub, job, parts, jar>>
uploaderVarsButJar == <<bundlePath, bundle, transcodes, error, loadpc, loadArg, loadDir, tstatus,
                        torder, service, showBundle, showTimers, finishTimers, closed, dirs,
                        removed, loads, pub, job, parts>>
vars == <<bundlePath, bundle, transcodes, error, loadpc, loadArg, loadDir, tstatus, torder, service,
          showBundle, showTimers, finishTimers, closed, dirs, removed, loads,
          pub, job, authVars, parts, jar, jar>>

(***************************************************************************)
(* Strings that matter character by character (the ETag header): a string  *)
(* is the sequence of its characters.                                      *)
(***************************************************************************)
Quotes == {"'", "\""}
\* an array slot nothing was assigned to (Array(maxParts), upload-avatar.ts:115)
Hole == <<"undefined">>
\* what upload_file answers for a part that was stored: the ETag header, or
\* the empty string when the response carries none
EtagResponses == { <<>>, <<"e">>, <<"\"", "e", "\"">> }

\* upload-avatar.ts:125   etag.replace(/^['"]|['"]$/g, '')
StripQuotes(s) ==
    LET a == IF Len(s) > 0 /\ s[1] \in Quotes THEN Tail(s) ELSE s
    IN  IF Len(a) > 0 /\ a[Len(a)] \in Quotes THEN SubSeq(a, 1, Len(a) - 1) ELSE a

(***************************************************************************)
(* Progress events (upload-avatar.ts:13-15).                               *)
(***************************************************************************)
Ev(t) == [type |-> t]
BundleEv(part, totalParts, platformIndex, totalPlatforms) ==
    [type |-> "bundle", part |-> part, totalParts |-> totalParts,
     platformIndex |-> platformIndex, totalPlatforms |-> totalPlatforms]
ErrorEv(msg) == [type |-> "error", msg |-> msg]

\* setProgress(e)
setProgress(p, e) == [p EXCEPT !.events = Append(@, e)]

\* useUpload: progress (the last value given to setProgress)
progress == IF pub.events = <<>> THEN NULL ELSE Last(pub.events)
\* upload-avatar.ts:20
uploading == progress # NULL /\ progress.type # "completed" /\ progress.type # "error"

(***************************************************************************)
(* The two records of a publication.                                       *)
(***************************************************************************)
IdlePub ==
    [pc |-> "idle",          \* where upload() is
     avatar |-> NULL,        \* let avatar
     lookup |-> 0,           \* the status getAvatar was answered with (0: not yet)
     upserts |-> <<>>,       \* the createAvatar / updateAvatar(name, imageUrl) requests issued
     upsertStatus |-> 0,     \* the status that request was answered with (0: not yet)
     events |-> <<>>,        \* every setProgress so far, in order
     rb |-> NULL,            \* the state readyBundle closed over
     done |-> {},            \* the platforms readyBundle has yielded
     yields |-> <<>>,        \* the same, in the order they were yielded
     paths |-> <<>>,         \* the path yielded with each of them
     platformIndex |-> 0,    \* let platformIndex
     cur |-> "none",          \* the platform of the loop body
     upsertReturned |-> FALSE, \* createAvatar / updateAvatar(name, imageUrl) answered
     updates |-> <<>>,       \* the per-platform updateAvatar bodies that were answered
     created |-> {},         \* the files createFile was issued for
     late |-> {}]            \* requests issued after upload() had caught an error

IdleJob ==
    [kind |-> "none",        \* "thumbnail" or the platform of the file
     reuse |-> FALSE,        \* fileId was given
     fileId |-> 0,           \* file.id (0: no file yet)
     pc |-> "idle",          \* where uploadFileToVRChat is
     versions |-> <<>>,      \* file.versions (their status) as showFile/createFile gave it
     category |-> "none",    \* file.versions[last].file.category after createFileVersion
     maxParts |-> 0,
     uf |-> "idle",          \* where uploadFile is
     partNumber |-> 0,
     etags |-> <<>>,
     us |-> "idle",          \* where uploadSig is
     acked |-> {},           \* the parts whose PUT was answered with success
     deleted |-> FALSE,      \* deleteFileVersion was answered for the last of versions
     finishFile |-> 0]       \* finishFileUpload(.., "file", ..) calls

(***************************************************************************)
(* parseSetCookieHeader (api.ts:6-16).  A string is the sequence of its    *)
(* tokens: the characters "," ";" "=" " " and words that hold none of them.*)
(***************************************************************************)
\* String.prototype.split(sep) for a one-character separator
RECURSIVE SplitFrom(_, _, _)
SplitFrom(s, sep, cur) ==
    IF s = <<>> THEN <<cur>>
    ELSE IF Head(s) = sep THEN <<cur>> \o SplitFrom(Tail(s), sep, <<>>)
    ELSE SplitFrom(Tail(s), sep, Append(cur, Head(s)))
split(s, sep) == SplitFrom(s, sep, <<>>)

\* String.prototype.trim()
RECURSIVE trimStart(_)
trimStart(s) == IF s # <<>> /\ Head(s) = " " THEN trimStart(Tail(s)) ELSE s
RECURSIVE trimEnd(_)
trimEnd(s) == IF s # <<>> /\ s[Len(s)] = " " THEN trimEnd(SubSeq(s, 1, Len(s) - 1)) ELSE s
trim(s) == trimEnd(trimStart(s))

\* the value undefined where a string is expected
UndefinedString == <<"undefined">>

\* api.ts:10-12  one piece of a header: cookies[name] = value
SetCookiePiece(cookies, cookie) ==
    LET nameValue == split(cookie, ";")[1]
        pieces == split(nameValue, "=")
        name == trim(pieces[1])
        value == IF Len(pieces) >= 2 THEN trim(pieces[2]) ELSE UndefinedString
    IN  [n \in DOMAIN cookies \cup {name} |-> IF n = name THEN value ELSE cookies[n]]

RECURSIVE FoldPieces(_, _)
FoldPieces(cookies, pieces) ==
    IF pieces = <<>> THEN cookies
    ELSE FoldPieces(SetCookiePiece(cookies, Head(pieces)), Tail(pieces))

\* api.ts:6-16
RECURSIVE parseFrom(_, _)
parseFrom(cookies, setCookieHeaders) ==
    IF setCookieHeaders = <<>> THEN cookies
    ELSE parseFrom(FoldPieces(cookies, split(Head(setCookieHeaders), ",")),
                   Tail(setCookieHeaders))
parseSetCookieHeader(setCookieHeaders) == parseFrom(<<>>, setCookieHeaders)

\* cookies.auth, cookies.twoFactorAuth: the property, undefined when there is none
Property(cookies, name) ==
    IF <<name>> \in DOMAIN cookies THEN cookies[<<name>>] ELSE UndefinedString

\* api.ts:183-189  getUser: authToken
getUserAuthToken(setCookieHeaders) ==
    IF Len(setCookieHeaders) > 0
    THEN Property(parseSetCookieHeader(setCookieHeaders), "auth")
    ELSE UndefinedString

\* api.ts:220-225  verifyTwoFactor: the value it returns
verifyTwoFactorCookie(setCookieHeaders) ==
    IF Len(setCookieHeaders) > 0
    THEN Property(parseSetCookieHeader(setCookieHeaders), "twoFactorAuth")
    ELSE <<"null">>

\* a response whose Set-Cookie headers set the cookies of sent, and what was
\* read from it
IdleJar ==
    [sent |-> <<>>,          \* the cookies the Service set: [name, value, attributes]
     fn |-> "none",          \* the function that read the response
     result |-> <<>>]        \* authToken of getUser / the value verifyTwoFactor returned

\* the file whose parts uploadFile sends, and what the loop has asked for
IdleParts ==
    [size |-> 0,             \* fileMetadata.size
     calls |-> <<>>,         \* startFileUpload / upload_file calls and the etags answered
     category |-> "none",    \* the category of the version createFileVersion answered
     requests |-> {}]        \* the start / finish requests sent to the Service for it

\* api.ts:470-475  the query of startFileUpload; the optional partNumber is
\* the set of the values given (none or one); here it is appended always
startFileUploadAlways(fileType, partNumber) ==
    [fn |-> "start", fileType |-> fileType,
     query |-> IF partNumber = {} THEN {[key |-> "partNumber", value |-> 0]}
               ELSE {[key |-> "partNumber", value |-> n] : n \in partNumber}]

\* api.ts:463-476  startFileUpload: PUT .../{fileType}/start?{queryParams}
startFileUpload(fileType, partNumber) ==
    [fn |-> "start", fileType |-> fileType,
     query |-> {[key |-> "partNumber", value |-> n] : n \in partNumber}]

\* api.ts:491-505  finishFileUpload: PUT .../{fileType}/finish with the body
\* etagData ? JSON.stringify(etagData) : undefined (etagData: none or one)
finishFileUpload(fileType, etagData) ==
    [fn |-> "finish", fileType |-> fileType, body |-> etagData]

\* upload-avatar.ts:121,132,136,142  the request uploadFile sends in a step
\* that takes the upload from j to k
FileRequests(j, k) ==
    (IF k.uf = "start" /\ (j.uf # "start" \/ j.pc # k.pc)
     THEN {startFileUpload("file", IF k.category = "multipart"
                                   THEN {k.partNumber} ELSE {})}
     ELSE {})
    \cup
    (IF k.uf = "finish" /\ j.uf # "finish"
     THEN {finishFileUpload("file", IF k.category = "multipart"
                                    THEN {[etags |-> k.etags]} ELSE {})}
     ELSE {})

Min(a, b) == IF a <= b THEN a ELSE b

\* upload-avatar.ts:118-120  const start, end, length of uploadPart
start(partNumber) == (partNumber - 1) * partSize
endUnclamped(partNumber, size) == partNumber * partSize
end(partNumber, size) == Min(partNumber * partSize, size)
length(partNumber, size) == end(partNumber, size) - start(partNumber)

\* upload-avatar.ts:121  startFileUpload(authToken, file.id, fileVersionId, "file", partNumber)
StartCall(partNumber) == [op |-> "startFileUpload", partNumber |-> partNumber]
\* upload-avatar.ts:122  invoke("upload_file", {url, path, start, length})
PutCall(partNumber, size) ==
    [op |-> "upload_file", partNumber |-> partNumber,
     start |-> start(partNumber), length |-> length(partNumber, size)]
\* upload-avatar.ts:122  the etag upload_file answered for the part
EtagAnswer(partNumber, etag) == [op |-> "etag", partNumber |-> partNumber, etag |-> etag]

\* s is the triple [pub, job, svc] of a publication, the file upload it runs
\* and the Service; a request issued once upload() has failed is noted
Issue(s, op) ==
    IF s.pub.pc = "error" THEN [s EXCEPT !.pub.late = @ \cup {op}] ELSE s

\* upload-avatar.ts:71-74  the catch block of upload()
Catch(s, msg) ==
    [s EXCEPT !.pub = [setProgress(@, ErrorEv(msg)) EXCEPT !.pc = "error"],
              !.job.pc = IF @ \in {"idle", "done"} THEN @ ELSE "failed"]

\* the onProgress callback given to uploadFileToVRChat (upload-avatar.ts:37,40,64-66)
onProgress(s, part, totalParts) ==
    IF s.job.kind = "thumbnail" THEN s
    ELSE [s EXCEPT !.pub = setProgress(@, BundleEv(part, totalParts,
                                 s.pub.platformIndex, Cardinality(s.pub.rb.bundle.assetBundles)))]


(***************************************************************************)
(* uploadFileToVRChat (upload-avatar.ts:82-161).  Each operator is what    *)
(* the code does when the answer it awaits arrives, up to its next await.  *)
(***************************************************************************)
\* upload-avatar.ts:82-90  called with fileId (0: undefined): extname, then
\* showFile(fileId) or createFile is issued
uploadFileToVRChat(s, kind, fileId) ==
    [s EXCEPT !.job = [IdleJob EXCEPT !.kind = kind, !.reuse = (fileId # 0),
                                      !.pc = "acquire", !.fileId = fileId],
              !.pub.created = IF fileId # 0 THEN @ ELSE @ \cup {kind}]

\* upload-avatar.ts:87,89  showFile / createFile answered (createFile has made
\* a file at the Service); the digests start
AcquireOk(s, versions) ==
    IF s.job.reuse
    THEN [s EXCEPT !.job.versions = versions, !.job.pc = "digest"]
    ELSE [s EXCEPT !.job.versions = versions, !.job.pc = "digest",
                   !.job.fileId = s.svc.files + 1, !.svc.files = @ + 1]

\* the reconcile condition narrowed to the status "waiting"
NeedsDeleteWaitingOnly(versions) == Last(versions) = "waiting"

\* upload-avatar.ts:100  the condition of the reconcile step
NeedsDelete(versions) == Last(versions) # "complete"

\* upload-avatar.ts:92-102  digests and signature done; reconcile, or create
\* (file.versions[-1] is undefined for an empty list: .status throws)
DigestOk(s) ==
    IF Len(s.job.versions) = 0 THEN Catch(s, "TypeError")
    ELSE IF NeedsDelete(s.job.versions) THEN [s EXCEPT !.job.pc = "delete"]
    ELSE [s EXCEPT !.job.pc = "create"]

\* upload-avatar.ts:100-102  deleteFileVersion answered; createFileVersion is issued
DeleteOk(s) ==
    [s EXCEPT !.job.deleted = TRUE, !.job.pc = "create"]

\* upload-avatar.ts:132  finishFileUpload(.., "file", {etags}) is issued
FinishMultipart(s) ==
    [Issue(s, "finishFileUpload") EXCEPT !.job.uf = "finish", !.job.finishFile = @ + 1]

\* upload-avatar.ts:111-145  uploadFile() up to its first await
uploadFile(s, size) ==
    IF s.job.category = "multipart"
    THEN LET maxParts == Ceil(size, partSize)
             t == [s EXCEPT !.job.maxParts = maxParts,
                            !.job.etags = [i \in 1..maxParts |-> Hole]]
         IN  IF 1 <= maxParts
             THEN [onProgress(t, 0, maxParts) EXCEPT !.job.partNumber = 1,
                                                     !.job.uf = "start"]
             ELSE FinishMultipart(t)
    ELSE [onProgress(s, 0, 1) EXCEPT !.job.uf = "start"]

\* upload-avatar.ts:147-148  uploadSig() up to its first await
uploadSig(s) == [s EXCEPT !.job.us = "start"]

\* createFileVersion: the versions of the file it answers with
CreatedVersion(versions, deleted) ==
    Append(IF deleted THEN SubSeq(versions, 1, Len(versions) - 1) ELSE versions, "waiting")

\* upload-avatar.ts:102-157  createFileVersion answered; both tasks are started
CreateOk(s, category, size) ==
    LET t == [s EXCEPT !.job.category = category, !.job.pc = "join",
                       !.job.versions = CreatedVersion(@, s.job.deleted),
                       !.job.deleted = FALSE]
    IN  uploadSig(uploadFile(t, size))

\* upload-avatar.ts:122-123,136-137  startFileUpload answered; the PUT is issued
FileStartOk(s) == [Issue(s, "put") EXCEPT !.job.uf = "put"]

\* upload-avatar.ts:124-128  the etag of a part
StoreEtag(etags, partNumber, etag) ==
    IF etag # <<>> THEN [etags EXCEPT ![partNumber] = StripQuotes(etag)] ELSE etags

\* the loop of uploadFile leaving one part out
UploadPartOkEarly(s, etag) ==
    LET n == s.job.partNumber
        t == [s EXCEPT !.job.etags = StoreEtag(@, n, etag),
                       !.job.acked = @ \cup {n}]
    IN  IF n + 2 <= s.job.maxParts
        THEN [onProgress(Issue(t, "startFileUpload"), n, s.job.maxParts)
                 EXCEPT !.job.partNumber = n + 1, !.job.uf = "start"]
        ELSE FinishMultipart(t)

\* upload-avatar.ts:116-132  the PUT of a part answered: next part, or finish
UploadPartOk(s, etag) ==
    LET n == s.job.partNumber
        t == [s EXCEPT !.job.etags = StoreEtag(@, n, etag),
                       !.job.acked = @ \cup {n}]
    IN  IF n + 1 <= s.job.maxParts
        THEN [onProgress(Issue(t, "startFileUpload"), n, s.job.maxParts)
                 EXCEPT !.job.partNumber = n + 1, !.job.uf = "start"]
        ELSE FinishMultipart(t)

\* upload-avatar.ts:137-142  the single PUT answered; finishFileUpload is issued
UploadSimpleOk(s) ==
    [Issue(s, "finishFileUpload") EXCEPT !.job.uf = "finish", !.job.finishFile = @ + 1]

\* the two tasks joined as by Promise.race: the first one done is enough
JoinEither(s) ==
    IF s.job.pc = "join" /\ (s.job.uf = "done" \/ s.job.us = "done")
    THEN [s EXCEPT !.job.pc = "show"] ELSE s

\* upload-avatar.ts:157-159  Promise.all resolves when both tasks are done
Join(s) ==
    IF s.job.pc = "join" /\ s.job.uf = "done" /\ s.job.us = "done"
    THEN [s EXCEPT !.job.pc = "show"] ELSE s

\* finishFileUpload("file") answered, without the last onProgress
FileFinishOkSilent(s) ==
    Join([s EXCEPT !.job.uf = "done", !.job.etags = <<>>, !.job.acked = {},
                   !.job.partNumber = 0, !.job.maxParts = 0])

\* upload-avatar.ts:132-133,142-143  finishFileUpload("file") answered
FileFinishOk(s) ==
    LET t == IF s.job.category = "multipart"
             THEN onProgress(s, s.job.maxParts, s.job.maxParts)
             ELSE onProgress(s, 1, 1)
    IN  Join([t EXCEPT !.job.uf = "done", !.job.etags = <<>>, !.job.acked = {},
                       !.job.partNumber = 0, !.job.maxParts = 0])

\* upload-avatar.ts:148-154  the steps of uploadSig
SigStartOk(s) == [Issue(s, "put") EXCEPT !.job.us = "put"]
SigPutOk(s) == [Issue(s, "finishFileUpload") EXCEPT !.job.us = "finish"]
SigFinishOk(s) == Join([s EXCEPT !.job.us = "done"])

\* a task rejects, with finishFileUpload("file") called on the way out
TaskFailFinishing(s, task, msg) ==
    LET t == IF task = "file"
             THEN [s EXCEPT !.job.uf = "failed", !.job.finishFile = @ + 1]
             ELSE [s EXCEPT !.job.us = "failed"]
    IN  IF s.job.pc = "join" THEN Catch(t, msg) ELSE t

\* upload-avatar.ts:157  a task rejects: Promise.all rejects with the first
\* rejection, uploadFileToVRChat throws into upload(); the other task runs on
TaskFail(s, task, msg) ==
    LET t == IF task = "file" THEN [s EXCEPT !.job.uf = "failed"]
                              ELSE [s EXCEPT !.job.us = "failed"]
    IN  IF s.job.pc = "join" THEN Catch(t, msg) ELSE t


(***************************************************************************)
(* readyBundle (bundle.ts:121-159) and upload (upload-avatar.ts:22-75).    *)
(***************************************************************************)
\* upload-avatar.ts:56
UnityPlatform(platform) == IF platform = "windows" THEN "standalonewindows" ELSE platform

\* metadata.assetBundles[platform].unityVersion of the archives of the model
ManifestUnityVersion(platform) ==
    CASE platform = "windows" -> "2022.3.6f1"
      [] platform = "android" -> "2022.3.22f1"
      [] OTHER -> "2021.3.5f1"

\* upload-avatar.ts:67  the body of the per-platform updateAvatar
UpdateBody(platform, bundleUrl) ==
    [assetUrl |-> bundleUrl, platform |-> UnityPlatform(platform),
     unityVersion |-> ManifestUnityVersion(platform), assetVersion |-> AssetVersion]

\* upload-avatar.ts:59  avatar.unityPackages.find(...): the package of the
\* platform with variant "standard", NULL (undefined) when there is none
existingFile(avatar, unityPlatform) ==
    LET found == {up \in avatar.unityPackages :
                     up.platform = unityPlatform /\ up.variant = "standard"}
    IN  IF found = {} THEN NULL ELSE CHOOSE up \in found : TRUE

\* the loop body with fileId left undefined whatever the avatar has
LoopBodyNewFile(s, platform) ==
    uploadFileToVRChat([s EXCEPT !.pub.cur = platform, !.pub.done = @ \cup {platform},
                                 !.pub.yields = Append(@, platform),
                                 !.pub.pc = "bundle"],
                       platform, 0)

\* upload-avatar.ts:56-66  the loop body up to the call of uploadFileToVRChat
LoopBody(s, platform) ==
    LET fileId == IF existingFile(s.pub.avatar, UnityPlatform(platform)) = NULL THEN 0
                  ELSE existingFile(s.pub.avatar, UnityPlatform(platform)).assetFile
        t == [s EXCEPT !.pub.cur = platform, !.pub.done = @ \cup {platform},
                       !.pub.yields = Append(@, platform),
                       !.pub.pc = "bundle"]
    IN  uploadFileToVRChat(t, platform, fileId)

\* upload-avatar.ts:70  the loop is over
Completed(s) == [s EXCEPT !.pub = [setProgress(@, Ev("completed")) EXCEPT !.pc = "completed"]]

\* bundle.ts:131-133  the pending map, built from the state readyBundle closed over
Pending(s) == s.pub.rb.transcodes \ s.pub.done

\* bundle.ts:169  getBundlePath(unpackPath, platform, z)
getBundlePath(unpackPath, platform, z) ==
    [dir |-> unpackPath, name |-> platform, ext |-> IF z THEN "vrcaz" ELSE "vrca"]

\* bundle.ts:186-199  bundle.assetBundlePaths as unpack() builds it
assetBundlePaths(b) ==
    [p \in b.assetBundles |->
        [z |-> p \in b.z, path |-> getBundlePath(b.unpackPath, p, p \in b.z)]]

\* bundle.ts:93-95  the value of the transcode promise of a platform:
\* outPath = join(dirname(bundlePath.path), platform + ".vrca")
transcodeOutPath(b, p) ==
    [dir |-> assetBundlePaths(b)[p].path.dir, name |-> p, ext |-> "vrca"]

\* bundle.ts:127, 156; upload-avatar.ts:55  {platform, path} is yielded and the
\* loop body of upload() runs with it
Yield(s, platform, path) ==
    LoopBody([s EXCEPT !.pub.paths = Append(@, path)], platform)

\* bundle.ts:146-157  Promise.race answered with platform p
RaceWon(s, p, status) ==
    IF status = "rejected" THEN Catch(s, "transcode")
    ELSE Yield(s, p, transcodeOutPath(s.pub.rb.bundle, p))

\* the generator without "if (path.z) continue": every platform is yielded
\* with the path of assetBundlePaths
readyBundleNoSkip(s, ts) ==
    LET rest == s.pub.rb.bundle.assetBundles \ s.pub.done
        settled == {p \in Pending(s) : ts[p] # "pending"}
    IN  IF rest # {}
        THEN Yield(s, FirstByOrder(rest),
                   assetBundlePaths(s.pub.rb.bundle)[FirstByOrder(rest)].path)
        ELSE IF Pending(s) = {} THEN Completed(s)
        ELSE IF settled # {}
             THEN RaceWon(s, FirstByOrder(settled), ts[FirstByOrder(settled)])
             ELSE [s EXCEPT !.pub.pc = "race"]

\* bundle.ts:121-159  the generator is asked for its next value; ts is the
\* state of the transcode promises.  Promises that are already settled answer
\* in the order of the array given to Promise.race.
readyBundle(s, ts) ==
    LET paths == s.pub.rb.bundle.assetBundles
        nonZ == (paths \ s.pub.rb.bundle.z) \ s.pub.done
        settled == {p \in Pending(s) : ts[p] # "pending"}
    IN  IF nonZ # {}
        THEN Yield(s, FirstByOrder(nonZ),
                   assetBundlePaths(s.pub.rb.bundle)[FirstByOrder(nonZ)].path)
        ELSE IF Pending(s) = {} THEN Completed(s)
        ELSE IF settled # {}
             THEN RaceWon(s, FirstByOrder(settled), ts[FirstByOrder(settled)])
             ELSE [s EXCEPT !.pub.pc = "race"]

\* upload-avatar.ts:22-29  upload() called: init, getAvatar is issued.
\* b and tr are state.bundle and state.transcodes of the render whose
\* readyBundle and bundle the handler closed over.
upload(b, tr) ==
    [IdlePub EXCEPT !.pc = "getAvatar", !.events = <<Ev("init")>>,
                    !.rb = [bundle |-> b, transcodes |-> tr]]

\* api.ts:381-397  getAvatar: the Avatar of the body, or a VRChatError thrown
\* when the response is not ok
getAvatar(resp) ==
    IF resp.status = 200 THEN [threw |-> FALSE, value |-> resp.avatar]
    ELSE [threw |-> TRUE, error |-> [message |-> "Data", status_code |-> resp.status]]

\* upload-avatar.ts:35-36  fileId of the thumbnail: parseFileUrl of the
\* avatar's thumbnailImageUrl, undefined (0) without an avatar
thumbnailFileId(avatar) == IF avatar = NULL THEN 0 ELSE avatar.thumbnailFile

\* getAvatar answered, with what it throws reaching the catch block of upload()
GetAvatarDoneRethrow(s, resp) ==
    LET r == getAvatar(resp)
    IN  IF r.threw THEN Catch([s EXCEPT !.pub.lookup = resp.status], r.error.message)
        ELSE uploadFileToVRChat(
                 [s EXCEPT !.pub = [setProgress(@, Ev("thumbnail")) EXCEPT
                                       !.avatar = r.value, !.lookup = resp.status,
                                       !.pc = "thumbnail"]],
                 "thumbnail", thumbnailFileId(r.value))

\* getAvatar answered, with the avatar request sent along with the thumbnail
\* upload instead of after it
GetAvatarDoneEager(s, resp) ==
    LET r == getAvatar(resp)
        avatar == IF r.threw THEN NULL ELSE r.value
        t == [s EXCEPT !.pub = [setProgress(@, Ev("thumbnail")) EXCEPT
                                   !.avatar = avatar, !.lookup = resp.status,
                                   !.pc = "thumbnail"]]
        u == uploadFileToVRChat(t, "thumbnail", thumbnailFileId(avatar))
    IN  [u EXCEPT !.pub.upserts = Append(@, IF avatar # NULL
                                            THEN [op |-> "updateAvatar", id |-> "blueprintId",
                                                  body |-> [name |-> "name", imageUrl |-> "thumbnail"]]
                                            ELSE [op |-> "createAvatar",
                                                  body |-> [id |-> "blueprintId", name |-> "name",
                                                            imageUrl |-> "thumbnail",
                                                            releaseStatus |-> "private",
                                                            unityVersion |-> "2022.3.6f1"]])]

\* upload-avatar.ts:27-40  getAvatar answered: whatever it threw, avatar = null;
\* thumbnail is emitted and the thumbnail upload starts
GetAvatarDone(s, resp) ==
    LET r == getAvatar(resp)
        avatar == IF r.threw THEN NULL ELSE r.value
        t == [s EXCEPT !.pub = [setProgress(@, Ev("thumbnail")) EXCEPT
                                   !.avatar = avatar, !.lookup = resp.status,
                                   !.pc = "thumbnail"]]
    IN  uploadFileToVRChat(t, "thumbnail", thumbnailFileId(avatar))

\* upload-avatar.ts:38  updateAvatar(authToken, avatarId, {name, imageUrl})
UpdateAvatarReq(imageUrl) ==
    [op |-> "updateAvatar", id |-> "blueprintId",
     body |-> [name |-> "name", imageUrl |-> imageUrl]]

\* upload-avatar.ts:42  createAvatar(authToken, {id, name, imageUrl, releaseStatus, unityVersion})
CreateAvatarReq(imageUrl) ==
    [op |-> "createAvatar",
     body |-> [id |-> "blueprintId", name |-> "name", imageUrl |-> imageUrl,
               releaseStatus |-> "private", unityVersion |-> "2022.3.6f1"]]

\* the avatar request as a createAvatar whatever getAvatar returned
UpsertAlwaysCreate(s, imageUrl) ==
    [s EXCEPT !.pub.upserts = Append(@, CreateAvatarReq(imageUrl)), !.pub.pc = "upsert"]

\* upload-avatar.ts:35-43  the avatar request that follows the thumbnail upload
Upsert(s, imageUrl) ==
    [s EXCEPT !.pub.upserts = Append(@, IF s.pub.avatar # NULL
                                        THEN UpdateAvatarReq(imageUrl)
                                        ELSE CreateAvatarReq(imageUrl)),
              !.pub.pc = "upsert"]

\* upload-avatar.ts:159-160, 38, 42, 67  the final showFile answered: the url is
\* returned and the caller issues its avatar request
ShowOk(s) ==
    LET t == [s EXCEPT !.job = [IdleJob EXCEPT !.kind = s.job.kind, !.pc = "done",
                                               !.fileId = s.job.fileId]]
    IN  IF s.job.kind = "thumbnail" THEN Upsert(t, s.job.kind)
        ELSE [t EXCEPT !.pub.pc = "update"]

\* upload-avatar.ts:38,42,52-55  updateAvatar / createAvatar answered
UpsertOk(s, ts) ==
    LET created == [unityPackages |-> {}, thumbnailFile |-> s.job.fileId]
        av == IF s.pub.avatar = NULL THEN created ELSE s.pub.avatar
        t == [s EXCEPT !.pub = [setProgress(@, Ev("waiting")) EXCEPT
                                   !.avatar = av, !.upsertReturned = TRUE,
                                   !.upsertStatus = 200],
                       !.svc.avatar = IF s.pub.avatar = NULL THEN created
                                      ELSE [@ EXCEPT !.thumbnailFile = s.job.fileId]]
    IN  readyBundle(t, ts)

\* the Service on updateAvatar(id, {assetUrl, platform, ...}): the avatar has a
\* unity package of that platform whose assetUrl is the one given
SetPackage(avatar, unityPlatform, fileId) ==
    [avatar EXCEPT !.unityPackages =
        {up \in @ : ~(up.platform = unityPlatform /\ up.variant = "standard")}
            \cup {[platform |-> unityPlatform, variant |-> "standard",
                   assetFile |-> fileId]}]

\* api.ts:18-25  the message of a VRChatError: "Data: " + JSON.stringify(data)
VRChatErrorMessage(status) ==
    IF status = 500 THEN "Data: {\"error\":{\"status_code\":500}}"
    ELSE "Data: {\"error\":{\"status_code\":400}}"

\* upload-avatar.ts:47  the message that replaces a 500 of createAvatar
BlueprintIdTakenMessage ==
    "Blueprint ID already in use: Avatar bundle has already been uploaded"

\* the avatar request failing with the error of the Service as it is
UpsertFailRaw(s, status) ==
    Catch([s EXCEPT !.pub.upsertStatus = status], VRChatErrorMessage(status))

\* upload-avatar.ts:38, 41-50  updateAvatar / createAvatar threw a VRChatError
UpsertFail(s, status) ==
    LET t == [s EXCEPT !.pub.upsertStatus = status]
    IN  IF s.pub.avatar = NULL /\ status = 500
        THEN Catch(t, BlueprintIdTakenMessage)
        ELSE Catch(t, VRChatErrorMessage(status))

\* upload-avatar.ts:67-69  the per-platform updateAvatar answered
UpdateOk(s, ts) ==
    LET t == [s EXCEPT !.pub.updates = Append(@, UpdateBody(s.pub.cur, s.job.kind)),
                       !.pub.platformIndex = @ + 1,
                       !.svc.avatar = SetPackage(@, UnityPlatform(s.pub.cur), s.job.fileId)]
    IN  readyBundle(t, ts)


(***************************************************************************)
(* The environment: archives, and what the Service answers.                *)
(***************************************************************************)
\* a .3b archive: what unpack() finds in the directory unpack_bundle made
GoodArchive(d, z) ==
    [metadata |-> "ok", thumbnail |-> TRUE, assetBundles |-> d, vrcaz |-> z, vrca |-> d \ z]
GoodArchives ==
    {GoodArchive({}, {}), GoodArchive({"windows"}, {}), GoodArchive({"windows"}, {"windows"}),
     GoodArchive({"android", "ios"}, {"ios"}), GoodArchive({"android", "ios"}, {"android", "ios"})}
BadArchives ==
    {[metadata |-> "missing", thumbnail |-> TRUE, assetBundles |-> {}, vrcaz |-> {}, vrca |-> {}],
     [metadata |-> "invalid", thumbnail |-> TRUE, assetBundles |-> {}, vrcaz |-> {}, vrca |-> {}],
     [metadata |-> "ok", thumbnail |-> FALSE, assetBundles |-> {"windows"}, vrcaz |-> {}, vrca |-> {"windows"}],
     [metadata |-> "ok", thumbnail |-> TRUE, assetBundles |-> {"windows", "android"}, vrcaz |-> {"windows"}, vrca |-> {}]}
Archives == GoodArchives \cup BadArchives

\* api.ts:350-379  an Avatar of the blueprint id: the id of the file of its
\* thumbnailImageUrl, and its unity packages with the id of the file of
\* their assetUrl
ExistingAvatars ==
    {[thumbnailFile |-> 1,
      unityPackages |->
          {[platform |-> "standalonewindows", variant |-> "standard", assetFile |-> 2],
           [platform |-> "android", variant |-> "standard", assetFile |-> 3],
           [platform |-> "ios", variant |-> "impostor", assetFile |-> 4]}]}
\* the Service before the first publication: no avatar of the blueprint id
\* and no file, or an avatar and its files
Services ==
    {[avatar |-> NULL, files |-> 0, before |-> NULL]}
        \cup {[avatar |-> av, files |-> 4, before |-> NULL] : av \in ExistingAvatars}
\* what the Service answers getAvatar with: the avatar, 404 when there is
\* none, 401 when the session has expired
GetAvatarResponses(svc) ==
    (IF svc.avatar = NULL THEN {[status |-> 404]}
     ELSE {[status |-> 200, avatar |-> svc.avatar]}) \cup {[status |-> 401]}

\* showFile of a file an avatar refers to: version 0, and possibly a version an
\* earlier upload left behind
ShownVersions == {<<"complete">>} \cup {<<"complete", st>> : st \in Statuses}
\* createFile
CreatedVersions == {<<>>, <<"complete">>}

\* stat(path).size
FileSizes == {0, 1} \cup {k * partSize + 1 : k \in 1..(MaxParts - 1)} \cup {MaxParts * partSize}

(***************************************************************************)
(* bundle.ts: unpack and the reducer.                                      *)
(***************************************************************************)
\* bundle.ts:174-202  unpack() once unpack_bundle has made directory dir:
\* the Bundle, or the message of the Error thrown
unpack(a, dir) ==
    IF a.metadata = "missing" THEN [error |-> [message |-> "No metadata in avatar bundle"]]
    ELSE IF ~a.thumbnail THEN [error |-> [message |-> "No thumbnail in avatar bundle"]]
    ELSE IF a.metadata = "invalid" THEN [error |-> [message |-> "Metadata invalid"]]
    ELSE IF \E p \in a.assetBundles : p \notin a.vrcaz /\ p \notin a.vrca
         THEN [error |-> [message |-> "No asset bundle found"]]
    ELSE [error |-> NULL,
          bundle |-> [unpackPath |-> dir, assetBundles |-> a.assetBundles,
                      z |-> a.assetBundles \cap a.vrcaz]]

BundleState == [bundle |-> bundle, bundlePath |-> bundlePath,
                transcodes |-> transcodes, error |-> error]

\* bundle.ts:73-87  reducer: the next state
reducer(state, action) ==
    CASE action.type = "load_bundle" ->
            [bundle |-> NULL, bundlePath |-> action.bundlePath, transcodes |-> {}, error |-> NULL]
      [] action.type = "set_bundle" -> [state EXCEPT !.bundle = action.bundle]
      [] action.type = "set_transcodes" -> [state EXCEPT !.transcodes = action.transcodes]
      [] action.type = "unload_bundle" ->
            [bundle |-> NULL, bundlePath |-> NULL, transcodes |-> {}, error |-> NULL]
      [] action.type = "set_error" -> [state EXCEPT !.error = action.error]

\* bundle.ts:81  the directories the reducer calls removeDir on
removeDir(state, action) ==
    IF action.type = "unload_bundle" /\ state.bundle # NULL
    THEN {state.bundle.unpackPath} ELSE {}

dispatch(action) ==
    LET n == reducer(BundleState, action)
        r == removeDir(BundleState, action)
    IN  /\ bundle' = n.bundle
        /\ bundlePath' = n.bundlePath
        /\ transcodes' = n.transcodes
        /\ error' = n.error
        /\ dirs' = dirs \ r
        /\ removed' = removed \cup r

(***************************************************************************)
(* app.tsx                                                                 *)
(***************************************************************************)
\* app.tsx:326  the Avatar component is rendered
AvatarShown == showBundle /\ bundle # NULL
\* bundle.ts:161
loading == bundlePath # NULL /\ bundle = NULL
\* no task of a publication is waiting for an answer
Quiet ==
    /\ pub.pc \in {"idle", "completed", "error"}
    /\ job.uf \in {"idle", "done", "failed"}
    /\ job.us \in {"idle", "done", "failed"}

(***************************************************************************)
(* AuthProvider (auth.tsx:91-326).  Every operator below maps the record   *)
(* of the provider's state, of its running functions and of what it talks  *)
(* to, to that record after one handler or one continuation has run.       *)
(***************************************************************************)
\* a value that was never assigned (res.authToken without a Set-Cookie header)
Undefined == [undefined |-> TRUE]
\* !x for the values authToken and a Token can take
Falsy(x) == x = NULL \/ x = Undefined

Usernames == {"alice", "bob"}
\* the usernames the secret store can be asked for: the input may be empty
StoreKeys == Usernames \cup {""}
\* the User the Service knows under a username
UserOf(name) == [username |-> name]
\* the twoFactorAuth cookie the Service sets when a code is verified
TwoFactorCookie == [twoFactorAuth |-> "cookie"]
\* the n-th auth cookie the Service has set
Cookie(n) == [auth |-> n]
\* the Token kept from an earlier session: its auth cookie is the first one
SavedToken == [auth |-> Cookie(1), twoFactor |-> TwoFactorCookie]
\* null, for a state that otherwise holds a string (lastUsername, error,
\* twoFactorType)
NullString == "null"

AS == [user |-> user, authToken |-> authToken, twoFactorType |-> twoFactorType,
       error |-> authError, onLogin |-> onLogin, loginOpen |-> loginOpen,
       loading |-> authLoading, username |-> username,
       launch |-> launch, form |-> form, out |-> out,
       tokens |-> tokens, config |-> config, account |-> account, log |-> authLog]

IdleForm == [pc |-> "idle", fn |-> "none", username |-> "", authToken |-> NULL,
             twoFactorType |-> NullString, token |-> NULL,
             result |-> "none",     \* how the function ended: "returned" or "threw"
             status |-> 0]          \* the status getUser was answered with in login()
IdleLaunch == [pc |-> "done", username |-> "", token |-> NULL]
IdleOut == [pc |-> "idle", username |-> "", authToken |-> NULL,
            user |-> NULL,         \* who was logged in when Log out was clicked
            result |-> "none"]     \* how logout() ended: "returned" or "threw"
IdleLog ==
    [saves |-> <<>>,        \* every saveToken(username, token), in order
     configs |-> <<>>,      \* every saveConfig(config), in order
     deletes |-> {},        \* the usernames deleteToken was called with
     logouts |-> {},        \* the auth cookies a logout request was sent with
     partial |-> {},        \* the auth cookies received with a "2fa" answer
     handled |-> <<>>,      \* what onLogin handlers were called with
     submits |-> 0,         \* the forms submitted so far
     outs |-> 0]            \* the times Log out was clicked so far

\* getUser without the test of 401: every status that is not ok throws
getUserStrict(resp) ==
    LET cookieAuth == IF resp.setCookieAuth = 0 THEN Undefined ELSE Cookie(resp.setCookieAuth)
    IN  IF resp.status # 200
        THEN [threw |-> TRUE, error |-> [message |-> "Data", status_code |-> resp.status]]
        ELSE IF resp.requiresTwoFactorAuth # {}
             THEN [threw |-> FALSE,
                   value |-> [type |-> "2fa",
                              type2fa |-> IF "emailOtp" \in resp.requiresTwoFactorAuth
                                          THEN "emailotp" ELSE "totp",
                              authToken |-> cookieAuth]]
        ELSE [threw |-> FALSE,
              value |-> [type |-> "user", user |-> UserOf(resp.user), authToken |-> cookieAuth]]

\* api.ts:172-201  getUser from the response on: status, the auth cookie of
\* Set-Cookie (0: none) and data.requiresTwoFactorAuth ({} when absent)
getUser(resp) ==
    LET cookieAuth == IF resp.setCookieAuth = 0 THEN Undefined ELSE Cookie(resp.setCookieAuth)
    IN  IF resp.status = 401 THEN [threw |-> FALSE, value |-> [type |-> "invalid"]]
        ELSE IF resp.status # 200
             THEN [threw |-> TRUE, error |-> [message |-> "Data", status_code |-> resp.status]]
        ELSE IF resp.requiresTwoFactorAuth # {}
             THEN [threw |-> FALSE,
                   value |-> [type |-> "2fa",
                              type2fa |-> IF "emailOtp" \in resp.requiresTwoFactorAuth
                                          THEN "emailotp" ELSE "totp",
                              authToken |-> cookieAuth]]
        ELSE [threw |-> FALSE,
              value |-> [type |-> "user", user |-> UserOf(resp.user), authToken |-> cookieAuth]]

\* what the Service answers GET auth/user with, for the account of name,
\* when the request carries the auth cookie sent (0: none): a new auth cookie
\* is set whenever none was sent, and may be set otherwise
UserResponses(name, sent, issued) ==
    LET cookies == IF sent = 0 THEN {issued + 1} ELSE {0, issued + 1}
    IN  {[status |-> st] : st \in {401, 500}}
          \cup {[status |-> 200, setCookieAuth |-> c, requiresTwoFactorAuth |-> r, user |-> name] :
                    c \in cookies, r \in {{}, {"emailOtp"}, {"totp", "otp"}}}

\* the Service has set the cookie of resp, if any
SetCookie(s, resp) ==
    IF resp.status = 200 /\ resp.setCookieAuth # 0
    THEN [s EXCEPT !.account.issued = resp.setCookieAuth] ELSE s

\* the onLogin effect without the test of authToken
onLoginEffectUserOnly(s) ==
    IF s.onLogin /\ s.user # NULL
    THEN [s EXCEPT !.log.handled = Append(@, [authToken |-> s.authToken, user |-> s.user,
                                             loginOpen |-> s.loginOpen]),
                   !.onLogin = FALSE]
    ELSE s

\* auth.tsx:124-130  the effect on [onLogin, user, authToken]
onLoginEffect(s) ==
    IF s.onLogin /\ s.user # NULL /\ ~Falsy(s.authToken)
    THEN [s EXCEPT !.log.handled = Append(@, [authToken |-> s.authToken, user |-> s.user,
                                             loginOpen |-> s.loginOpen]),
                   !.onLogin = FALSE]
    ELSE s

AuthStep(r) ==
    LET s == onLoginEffect(r)
    IN  /\ user' = s.user /\ authToken' = s.authToken /\ twoFactorType' = s.twoFactorType
        /\ authError' = s.error /\ onLogin' = s.onLogin /\ loginOpen' = s.loginOpen
        /\ authLoading' = s.loading /\ username' = s.username
        /\ launch' = s.launch /\ form' = s.form /\ out' = s.out
        /\ tokens' = s.tokens /\ config' = s.config /\ account' = s.account
        /\ authLog' = s.log
        /\ UNCHANGED uploaderVars

\* auth.tsx:92-104  the state of the provider when it is mounted
AuthMounted ==
    /\ user = NULL /\ authToken = NULL /\ twoFactorType = NullString /\ authError = NullString
    /\ onLogin = FALSE /\ loginOpen = FALSE /\ authLoading = FALSE /\ username = ""
    /\ form = IdleForm /\ out = IdleOut
    /\ account = [issued |-> 1]
    /\ authLog = IdleLog

\* the provider with nothing stored and load() over
AuthIdle ==
    /\ AuthMounted
    /\ launch = IdleLaunch
    /\ tokens = [u \in StoreKeys |-> NULL]
    /\ config = NULL

(***************************************************************************)
(* load() of the effect at launch (auth.tsx:107-122)                       *)
(***************************************************************************)
\* auth.tsx:109-111  loadConfig answered
LoadConfigDone(s) ==
    IF s.config = NULL \/ s.config.lastUsername = NullString
    THEN [s EXCEPT !.launch = IdleLaunch]
    ELSE [s EXCEPT !.username = s.config.lastUsername,
                   !.launch = [IdleLaunch EXCEPT !.pc = "loadToken",
                                                 !.username = s.config.lastUsername]]

\* auth.tsx:113-115  loadToken answered; getUser(undefined, token) is called
LaunchTokenDone(s) ==
    LET token == s.tokens[s.launch.username]
    IN  IF Falsy(token) THEN [s EXCEPT !.launch = IdleLaunch]
        ELSE [s EXCEPT !.launch.pc = "getUser", !.launch.token = token]

\* auth.tsx:115-120  getUser answered
LaunchUserDone(s, resp) ==
    LET r == getUser(resp)
        t == [SetCookie(s, resp) EXCEPT !.launch = IdleLaunch]
    IN  IF r.threw \/ r.value.type # "user" THEN t
        ELSE [t EXCEPT !.user = r.value.user, !.authToken = s.launch.token.auth]

(***************************************************************************)
(* login (auth.tsx:133-159)                                                *)
(***************************************************************************)
\* auth.tsx:206-210, 133-136  the form is submitted: loadToken is called
handleLoginDone(s) ==
    [s EXCEPT !.error = NullString, !.loading = TRUE, !.log.submits = @ + 1,
              !.form = [IdleForm EXCEPT !.pc = "loadToken", !.fn = "login",
                                        !.username = s.username]]

\* auth.tsx:136-137  loadToken answered; getUser(account, token) is called
LoginTokenDone(s) ==
    [s EXCEPT !.form.token = s.tokens[s.form.username], !.form.pc = "getUser"]

\* auth.tsx:156-158  finally, with the function returning or throwing
LoginEnd(s, result) ==
    [s EXCEPT !.loading = FALSE, !.form = [IdleForm EXCEPT !.result = result]]

\* auth.tsx:137-155  getUser answered
LoginUserReturned(s, resp) ==
    LET r == getUser(resp)
        t == SetCookie(s, resp)
        token == s.form.token
    IN  IF r.threw THEN LoginEnd(t, "threw")
        ELSE IF r.value.type = "user"
        THEN LET u == [t EXCEPT !.loginOpen = FALSE, !.user = r.value.user]
             IN  IF ~Falsy(r.value.authToken)
                 THEN LET v == [u EXCEPT !.authToken = r.value.authToken]
                      IN  \* token.twoFactor of a token that is null
                          IF Falsy(token) THEN LoginEnd(v, "threw")
                          ELSE [v EXCEPT !.form.pc = "saveToken",
                                         !.form.token = [auth |-> r.value.authToken,
                                                         twoFactor |-> token.twoFactor],
                                         !.log.saves = Append(@,
                                             [username |-> s.form.username, by |-> "login",
                                              submit |-> s.log.submits,
                                              token |-> [auth |-> r.value.authToken,
                                                         twoFactor |-> token.twoFactor]])]
                 ELSE IF Falsy(token) THEN LoginEnd(u, "threw")
                 ELSE [u EXCEPT !.authToken = token.auth, !.form.pc = "saveConfig",
                                !.log.configs = Append(@, [lastUsername |-> s.form.username])]
        ELSE IF r.value.type = "2fa"
        THEN LoginEnd([t EXCEPT !.authToken = r.value.authToken,
                                !.twoFactorType = r.value.type2fa,
                                !.log.partial = IF Falsy(r.value.authToken) THEN @
                                                ELSE @ \cup {r.value.authToken}],
                      "returned")
        ELSE LoginEnd([t EXCEPT !.error = "Invalid username or password"], "returned")

\* auth.tsx:137  the same, with the status of the answer noted
LoginUserDone(s, resp) ==
    LET t == LoginUserReturned(s, resp)
    IN  IF t.form.pc = "idle" THEN [t EXCEPT !.form.status = resp.status] ELSE t

\* auth.tsx:146, 176  saveToken answered; saveConfig is called
SaveTokenDone(s) ==
    [s EXCEPT !.tokens[s.form.username] = s.form.token,
              !.form.pc = "saveConfig",
              !.log.configs = Append(@, [lastUsername |-> s.form.username])]

\* auth.tsx:150  saveConfig answered
LoginConfigDone(s) ==
    LoginEnd([s EXCEPT !.config = [lastUsername |-> s.form.username]], "returned")

(***************************************************************************)
(* twoFactor (auth.tsx:161-185)                                            *)
(***************************************************************************)
\* auth.tsx:233-237, 161-167  the code is submitted with an auth token and a
\* type: verifyTwoFactor is called
handleTwoFactorDone(s) ==
    [s EXCEPT !.error = NullString, !.loading = TRUE, !.log.submits = @ + 1,
              !.form = [IdleForm EXCEPT !.pc = "verify", !.fn = "twoFactor",
                                        !.username = s.username,
                                        !.authToken = s.authToken,
                                        !.twoFactorType = s.twoFactorType]]

\* auth.tsx:162-163  the code is submitted without one of them: twoFactor
\* throws before its try block
handleTwoFactorThrows(s) ==
    [s EXCEPT !.error = NullString, !.log.submits = @ + 1,
              !.form = [IdleForm EXCEPT !.result = "threw"]]

\* auth.tsx:178-183  catch and finally
TwoFactorCatch(s) ==
    [s EXCEPT !.error = "Two-factor authentication failed. Please try again.",
              !.loading = FALSE, !.form = [IdleForm EXCEPT !.result = "returned"]]

\* api.ts:213-225  verifyTwoFactor from the response on
verifyTwoFactor(resp) ==
    IF resp.status # 200
    THEN [threw |-> TRUE, error |-> [message |-> "Data", status_code |-> resp.status]]
    ELSE [threw |-> FALSE,
          value |-> IF resp.setCookieTwoFactor THEN TwoFactorCookie ELSE NULL]

\* what the Service answers the verify request with
VerifyResponses ==
    {[status |-> 400]} \cup {[status |-> 200, setCookieTwoFactor |-> c] : c \in BOOLEAN}

\* verifyTwoFactor answered, with the token saved at once
VerifyDoneSaving(s, resp) ==
    LET r == verifyTwoFactor(resp)
    IN  IF r.threw THEN TwoFactorCatch(s)
        ELSE [s EXCEPT !.form.token = [auth |-> s.form.authToken, twoFactor |-> r.value],
                       !.form.pc = "getUser",
                       !.log.saves = Append(@, [username |-> s.form.username,
                                                by |-> "twoFactor",
                                                submit |-> s.log.submits,
                                                token |-> [auth |-> s.form.authToken,
                                                           twoFactor |-> r.value]])]

\* auth.tsx:167-169  verifyTwoFactor answered; getUser(undefined, token) is called
VerifyDone(s, resp) ==
    LET r == verifyTwoFactor(resp)
    IN  IF r.threw THEN TwoFactorCatch(s)
        ELSE [s EXCEPT !.form.token = [auth |-> s.form.authToken, twoFactor |-> r.value],
                       !.form.pc = "getUser"]

\* auth.tsx:169-176  getUser answered
TwoFactorUserDone(s, resp) ==
    LET r == getUser(resp)
        t == SetCookie(s, resp)
    IN  IF r.threw \/ r.value.type # "user" THEN TwoFactorCatch(t)
        ELSE [t EXCEPT !.user = r.value.user, !.loginOpen = FALSE, !.twoFactorType = NullString,
                       !.form.pc = "saveToken",
                       !.log.saves = Append(@, [username |-> s.form.username,
                                                by |-> "twoFactor",
                                                submit |-> s.log.submits,
                                                token |-> s.form.token])]

\* auth.tsx:177, 184  saveConfig answered
TwoFactorConfigDone(s) ==
    [s EXCEPT !.config = [lastUsername |-> s.form.username],
              !.loading = FALSE, !.form = [IdleForm EXCEPT !.result = "returned"]]

(***************************************************************************)
(* The dialog (auth.tsx:199-231)                                           *)
(***************************************************************************)
\* auth.tsx:199-204
openLogin(s, handler) ==
    [s EXCEPT !.onLogin = IF handler THEN TRUE ELSE @, !.loginOpen = TRUE]

\* api.ts:246-260  the logout request is sent with the cookie
apiLogout(s, cookie) == [s EXCEPT !.log.logouts = @ \cup {cookie}]

\* auth.tsx:212-231  handleLoginChange(false): the dialog is closed
handleLoginChange(s) ==
    LET t == IF s.twoFactorType # NullString
             THEN LET u == [s EXCEPT !.twoFactorType = NullString]
                  IN  IF ~Falsy(s.authToken)
                      THEN apiLogout([u EXCEPT !.authToken = NULL], s.authToken)
                      ELSE u
             ELSE s
    IN  [t EXCEPT !.onLogin = FALSE, !.error = NullString, !.loginOpen = FALSE]

(***************************************************************************)
(* logout (auth.tsx:187-197)                                               *)
(***************************************************************************)
\* auth.tsx:187-192  Log out is clicked: saveConfig is called
logout(s) ==
    [s EXCEPT !.user = NULL, !.authToken = NULL, !.username = "",
              !.out = [pc |-> "saveConfig", username |-> s.username,
                       authToken |-> s.authToken, user |-> s.user, result |-> "none"],
              !.log.configs = Append(@, [lastUsername |-> NullString]),
              !.log.outs = @ + 1]

\* auth.tsx:192-193  saveConfig answered; deleteToken(username) is called
LogoutConfigDone(s) ==
    [s EXCEPT !.config = [lastUsername |-> NullString], !.out.pc = "deleteToken",
              !.log.deletes = @ \cup {s.out.username}]

\* auth.tsx:193-196  deleteToken answered; the logout request is sent if
\* there is an auth token
DeleteTokenDone(s) ==
    LET t == [s EXCEPT !.tokens[s.out.username] = NULL]
    IN  IF ~Falsy(s.out.authToken)
        THEN apiLogout([t EXCEPT !.out.pc = "apiLogout"], s.out.authToken)
        ELSE [t EXCEPT !.out.pc = "idle", !.out.result = "returned"]

\* api.ts:256-259, auth.tsx:195  the logout request answered: logout() returns,
\* or throws what apiLogout threw
ApiLogoutDone(s, ok) ==
    [s EXCEPT !.out.pc = "idle", !.out.result = IF ok THEN "returned" ELSE "threw"]

(***************************************************************************)
(* The application.                                                        *)
(***************************************************************************)
Init ==
    /\ bundlePath = NULL /\ bundle = NULL /\ transcodes = {} /\ error = NULL
    /\ loadpc = "idle" /\ loadArg = NULL /\ loadDir = 0
    /\ tstatus = [p \in Platform |-> "none"] /\ torder = <<>>
    /\ showBundle = FALSE /\ showTimers = 0 /\ finishTimers = 0
    /\ closed = FALSE
    /\ dirs = {} /\ removed = {} /\ loads = 0
    /\ service \in Services
    /\ pub = IdlePub /\ job = IdleJob
    /\ AuthIdle
    /\ parts = IdleParts
    /\ jar = IdleJar

\* app.tsx:300, bundle.ts:106-109  a file is dropped or chosen (FileInput, or
\* file_arg at launch): load_bundle, and the effect of useBundle calls unpack
LoadFile(files, maxLoads) ==
    /\ ~closed /\ ~AvatarShown /\ ~loading
    /\ loadpc = "idle" /\ Quiet /\ loads < maxLoads
    /\ \E a \in files : /\ dispatch([type |-> "load_bundle", bundlePath |-> a])
                        /\ loadArg' = a
    /\ loadpc' = "unpack"
    /\ loads' = loads + 1
    /\ tstatus' = [p \in Platform |-> "none"] /\ torder' = <<>>
    /\ pub' = IdlePub /\ job' = IdleJob
    /\ UNCHANGED <<loadDir, showBundle, showTimers, finishTimers, closed>>

handleFile == LoadFile(Archives, MaxLoads) /\ UNCHANGED <<service, authVars, parts, jar>>

\* app.tsx:300  the file of the publication that has just completed is chosen
\* again; the avatar record and the number of files of the Service at that
\* moment are kept in service.before
handleSameFile ==
    /\ pub.pc = "completed"
    /\ LoadFile({a \in GoodArchives :
                    /\ a.assetBundles = pub.rb.bundle.assetBundles
                    /\ a.assetBundles \cap a.vrcaz = pub.rb.bundle.z}, MaxPublications)
    /\ service' = [service EXCEPT !.before = [avatar |-> service.avatar,
                                              files |-> service.files]]
    /\ UNCHANGED <<authVars, parts, jar>>

\* bundle.ts:175  unpack_bundle answered: a fresh directory, or an error
UnpackBundleResp ==
    /\ ~closed /\ loadpc = "unpack"
    /\ \/ /\ loadDir' = loads
          /\ dirs' = dirs \cup {loads}
          /\ loadpc' = "validate"
          /\ UNCHANGED <<loadArg, bundlePath, bundle, transcodes, error, removed>>
       \/ /\ dispatch([type |-> "set_error", error |-> [message |-> "unpack_bundle"]])
          /\ loadpc' = "idle" /\ loadArg' = NULL
          /\ UNCHANGED loadDir
    /\ UNCHANGED <<tstatus, torder, service, authVars, parts, jar, showBundle, showTimers, finishTimers, closed, loads, pub, job>>

\* bundle.ts:110-118, 176-201, app.tsx:273-281  the checks of unpack() are done:
\* set_error, or set_bundle (whose effect arms the 300 ms timer) and startTranscodes
UnpackDone ==
    /\ ~closed /\ loadpc = "validate"
    /\ LET u == unpack(loadArg, loadDir)
       IN  IF u.error # NULL
           THEN /\ dispatch([type |-> "set_error", error |-> u.error])
                /\ loadpc' = "idle" /\ loadArg' = NULL /\ loadDir' = 0
                /\ UNCHANGED <<tstatus, torder, showTimers>>
           ELSE /\ dispatch([type |-> "set_bundle", bundle |-> u.bundle])
                /\ showTimers' = showTimers + 1
                /\ tstatus' = [p \in Platform |-> IF p \in u.bundle.z THEN "pending" ELSE "none"]
                /\ torder' = <<>>
                /\ loadpc' = IF u.bundle.z = {} THEN "idle" ELSE "transcodes"
                /\ loadArg' = NULL /\ loadDir' = 0
    /\ UNCHANGED <<service, authVars, parts, jar, showBundle, finishTimers, closed, loads, pub, job>>


\* bundle.ts:89-99, 114  startTranscodes answered: set_transcodes
StartTranscodesDone ==
    /\ ~closed /\ loadpc = "transcodes"
    /\ dispatch([type |-> "set_transcodes",
                 transcodes |-> {p \in Platform : tstatus[p] # "none"}])
    /\ loadpc' = "idle"
    /\ UNCHANGED <<loadArg, loadDir, tstatus, torder, service, authVars, parts, jar, showBundle, showTimers, finishTimers,
                   closed, loads, pub, job>>

\* app.tsx:283-288  the effect on [error]
ErrorEffect ==
    /\ ~closed /\ error # NULL
    /\ dispatch([type |-> "unload_bundle"])
    /\ UNCHANGED <<loadpc, loadArg, loadDir, tstatus, torder, service, authVars, parts, jar, showBundle, showTimers,
                   finishTimers, closed, loads, pub, job>>

\* app.tsx:276-279  the timer of the effect on [bundle] fires
ShowTimer ==
    /\ ~closed /\ showTimers > 0
    /\ showTimers' = showTimers - 1
    /\ showBundle' = TRUE
    /\ UNCHANGED <<bundlePath, bundle, transcodes, error, loadpc, loadArg, loadDir,
                   tstatus, torder, service, authVars, parts, jar, finishTimers, closed, dirs, removed, loads, pub, job>>

\* app.tsx:291-298  handleFinish: the timer is armed
handleFinish == finishTimers' = finishTimers + 1

\* app.tsx:293-297  the timer of handleFinish fires
FinishTimer ==
    /\ ~closed /\ finishTimers > 0
    /\ finishTimers' = finishTimers - 1
    /\ dispatch([type |-> "unload_bundle"])
    /\ showBundle' = FALSE
    /\ UNCHANGED <<loadpc, loadArg, loadDir, tstatus, torder, service, authVars, parts, jar, showTimers, closed, loads, pub, job>>

\* app.tsx:168-170, 195  Cancel is clicked
handleCancel ==
    /\ ~closed /\ AvatarShown /\ ~uploading
    /\ finishTimers = 0
    /\ handleFinish
    /\ UNCHANGED <<appVars, tstatus, torder, service, authVars, parts, jar, pub, job>>

\* app.tsx:261-271  the bundle the close handler closed over: the effect has
\* no dependencies, so it is the bundle of the first render
closeHandlerBundle == NULL

\* app.tsx:263-265  the window is asked to close
onCloseRequested ==
    /\ ~closed
    /\ closed' = TRUE
    /\ IF closeHandlerBundle # NULL
       THEN dispatch([type |-> "unload_bundle"])
       ELSE UNCHANGED <<bundlePath, bundle, transcodes, error, dirs, removed>>
    \* the process ends: its tasks and timers are gone
    /\ loadpc' = "idle" /\ loadArg' = NULL /\ loadDir' = 0
    /\ showTimers' = 0 /\ finishTimers' = 0
    /\ tstatus' = [p \in Platform |-> "none"] /\ torder' = <<>>
    /\ pub' = IdlePub /\ job' = IdleJob
    /\ UNCHANGED <<service, authVars, parts, jar, showBundle, loads>>

(***************************************************************************)
(* The steps of a publication.                                             *)
(***************************************************************************)
S == [pub |-> pub, job |-> job, svc |-> service]
Ended(p) == p.pc \in {"completed", "error"}

\* app.tsx:153-156  runUpload: props.onFinish() once upload() has returned
Assign(r) ==
    /\ pub' = r.pub
    /\ job' = r.job
    /\ service' = r.svc
    /\ IF Ended(r.pub) /\ ~Ended(pub) THEN handleFinish ELSE UNCHANGED finishTimers
    /\ UNCHANGED <<appVars, authVars, jar>>

Step(r) == Assign(r) /\ UNCHANGED parts

\* app.tsx:196, 326  the Upload button is rendered and is not disabled
UploadEnabled == ~closed /\ AvatarShown /\ ~uploading

\* app.tsx:152-166, 196  Upload is clicked (the user is logged in)
handleUpload ==
    /\ UploadEnabled
    /\ pub.pc = "idle"
    /\ pub' = upload(bundle, transcodes)
    /\ UNCHANGED <<appVars, tstatus, torder, service, authVars, parts, jar, finishTimers, job>>

GetAvatarResp ==
    /\ ~closed /\ pub.pc = "getAvatar"
    /\ \E resp \in GetAvatarResponses(service) : Step(GetAvatarDone(S, resp))
    /\ UNCHANGED <<tstatus, torder>>

AcquireResp ==
    /\ ~closed /\ job.pc = "acquire"
    /\ \/ \E vs \in (IF job.reuse THEN ShownVersions ELSE CreatedVersions) :
             Step(AcquireOk(S, vs))
       \/ Step(Catch(S, IF job.reuse THEN "showFile" ELSE "createFile"))
    /\ UNCHANGED <<tstatus, torder>>

DigestResp ==
    /\ ~closed /\ job.pc = "digest"
    /\ \/ Step(DigestOk(S))
       \/ Step(Catch(S, "digest"))
    /\ UNCHANGED <<tstatus, torder>>

DeleteResp ==
    /\ ~closed /\ job.pc = "delete"
    /\ \/ Step(DeleteOk(S))
       \/ Step(Catch(S, "deleteFileVersion"))
    /\ UNCHANGED <<tstatus, torder>>

CreateResp ==
    /\ ~closed /\ job.pc = "create"
    /\ \/ \E c \in Categories :
            \E size \in (IF c = "multipart" THEN FileSizes ELSE {0}) :
               Step(CreateOk(S, c, size))
       \/ Step(Catch(S, "createFileVersion"))
    /\ UNCHANGED <<tstatus, torder>>

FileStartResp ==
    /\ ~closed /\ job.uf = "start"
    /\ \/ Step(FileStartOk(S))
       \/ Step(TaskFail(S, "file", "startFileUpload"))
    /\ UNCHANGED <<tstatus, torder>>

FilePutResp ==
    /\ ~closed /\ job.uf = "put"
    /\ \/ /\ job.category = "multipart"
          /\ \E etag \in EtagResponses : Step(UploadPartOk(S, etag))
       \/ /\ job.category # "multipart"
          /\ Step(UploadSimpleOk(S))
       \/ Step(TaskFail(S, "file", "upload"))
    /\ UNCHANGED <<tstatus, torder>>

FileFinishResp ==
    /\ ~closed /\ job.uf = "finish"
    /\ \/ Step(FileFinishOk(S))
       \/ Step(TaskFail(S, "file", "finishFileUpload"))
    /\ UNCHANGED <<tstatus, torder>>

SigStartResp ==
    /\ ~closed /\ job.us = "start"
    /\ \/ Step(SigStartOk(S))
       \/ Step(TaskFail(S, "signature", "startFileUpload"))
    /\ UNCHANGED <<tstatus, torder>>

SigPutResp ==
    /\ ~closed /\ job.us = "put"
    /\ \/ Step(SigPutOk(S))
       \/ Step(TaskFail(S, "signature", "upload"))
    /\ UNCHANGED <<tstatus, torder>>

SigFinishResp ==
    /\ ~closed /\ job.us = "finish"
    /\ \/ Step(SigFinishOk(S))
       \/ Step(TaskFail(S, "signature", "finishFileUpload"))
    /\ UNCHANGED <<tstatus, torder>>

ShowResp ==
    /\ ~closed /\ job.pc = "show"
    /\ \/ Step(ShowOk(S))
       \/ Step(Catch(S, "showFile"))
    /\ UNCHANGED <<tstatus, torder>>

UpsertResp ==
    /\ ~closed /\ pub.pc = "upsert"
    /\ \/ /\ pub.avatar = NULL => service.avatar = NULL
          /\ Step(UpsertOk(S, tstatus))
       \/ \E status \in {500, 400} : Step(UpsertFail(S, status))
    /\ UNCHANGED <<tstatus, torder>>

UpdateResp ==
    /\ ~closed /\ pub.pc = "update"
    /\ \/ Step(UpdateOk(S, tstatus))
       \/ Step(Catch(S, "updateAvatar"))
    /\ UNCHANGED <<tstatus, torder>>

\* bundle.ts:95, 146  a transcode_bundle answers; a waiting Promise.race is won
TranscodeSettle ==
    /\ ~closed
    /\ \E p \in Platform : \E st \in {"fulfilled", "rejected"} :
          /\ tstatus[p] = "pending"
          /\ tstatus' = [tstatus EXCEPT ![p] = st]
          /\ torder' = Append(torder, p)
          /\ IF pub.pc = "race" /\ p \in Pending(S)
             THEN Step(RaceWon(S, p, st))
             ELSE UNCHANGED <<appVars, finishTimers, service, authVars, parts, jar, pub, job>>

Next ==
    \/ handleFile \/ UnpackBundleResp \/ UnpackDone \/ StartTranscodesDone
    \/ ErrorEffect \/ ShowTimer \/ FinishTimer \/ handleCancel \/ onCloseRequested
    \/ handleUpload \/ GetAvatarResp \/ AcquireResp \/ DigestResp \/ DeleteResp
    \/ CreateResp \/ FileStartResp \/ FilePutResp \/ FileFinishResp
    \/ SigStartResp \/ SigPutResp \/ SigFinishResp \/ ShowResp
    \/ UpsertResp \/ UpdateResp \/ TranscodeSettle

Spec == Init /\ [][Next]_vars

(***************************************************************************)
(* One publication of a loaded bundle: the Avatar view is shown for a      *)
(* bundle useBundle has unpacked, with its transcodes running and either   *)
(* recorded in the state already or not yet (bundle.ts:110-114).           *)
(***************************************************************************)
PubInit ==
    /\ \E a \in GoodArchives :
          /\ bundlePath = a
          /\ bundle = unpack(a, 1).bundle
          /\ tstatus = [p \in Platform |-> IF p \in bundle.z THEN "pending" ELSE "none"]
          /\ torder = <<>>
          /\ \/ transcodes = bundle.z /\ loadpc = "idle"
             \/ transcodes = {} /\ loadpc = "transcodes" /\ bundle.z # {}
    /\ error = NULL /\ loadArg = NULL /\ loadDir = 0
    /\ showBundle = TRUE /\ showTimers = 0 /\ finishTimers = 0
    /\ closed = FALSE
    /\ dirs = {1} /\ removed = {} /\ loads = 1
    /\ service \in Services
    /\ pub = IdlePub /\ job = IdleJob
    /\ AuthIdle
    /\ parts = IdleParts
    /\ jar = IdleJar

PubNext ==
    \/ StartTranscodesDone \/ TranscodeSettle
    \/ handleUpload \/ GetAvatarResp \/ AcquireResp \/ DigestResp \/ DeleteResp
    \/ CreateResp \/ FileStartResp \/ FilePutResp \/ FileFinishResp
    \/ SigStartResp \/ SigPutResp \/ SigFinishResp \/ ShowResp
    \/ UpsertResp \/ UpdateResp

PubSpec == PubInit /\ [][PubNext]_vars

\* Publications of the same file one after the other: when one has completed
\* the window of the avatar closes (handleFinish) and the file is loaded again.
RepubNext ==
    \/ PubNext
    \/ FinishTimer
    \/ handleSameFile
    \/ UnpackBundleResp
    \/ UnpackDone
    \/ ShowTimer
RepubSpec == PubInit /\ [][RepubNext]_vars

(***************************************************************************)
(* The provider alone: the application is started with or without a saved  *)
(* session, and the user logs in, cancels and logs out.                    *)
(***************************************************************************)
\* the auth cookie a request carries for a token (0: none)
SentCookie(token) == IF Falsy(token) \/ Falsy(token.auth) THEN 0 ELSE token.auth.auth

AuthInit ==
    /\ AuthMounted
    /\ launch = [IdleLaunch EXCEPT !.pc = "loadConfig"]
    /\ \E saved \in SUBSET {"alice"} :
          /\ tokens = [u \in StoreKeys |-> IF u \in saved THEN SavedToken ELSE NULL]
          /\ config \in {NULL, [lastUsername |-> NullString]}
                           \cup {[lastUsername |-> u] : u \in saved}
    /\ bundlePath = NULL /\ bundle = NULL /\ transcodes = {} /\ error = NULL
    /\ loadpc = "idle" /\ loadArg = NULL /\ loadDir = 0
    /\ tstatus = [p \in Platform |-> "none"] /\ torder = <<>>
    /\ showBundle = FALSE /\ showTimers = 0 /\ finishTimers = 0
    /\ closed = FALSE
    /\ dirs = {} /\ removed = {} /\ loads = 0
    /\ service = [avatar |-> NULL, files |-> 0, before |-> NULL]
    /\ pub = IdlePub /\ job = IdleJob
    /\ parts = IdleParts
    /\ jar = IdleJar

LoadConfigResp ==
    /\ launch.pc = "loadConfig"
    /\ AuthStep(LoadConfigDone(AS))

LaunchTokenResp ==
    /\ launch.pc = "loadToken"
    /\ AuthStep(LaunchTokenDone(AS))

LaunchUserResp ==
    /\ launch.pc = "getUser"
    /\ \E resp \in UserResponses(launch.username, SentCookie(launch.token), account.issued) :
          AuthStep(LaunchUserDone(AS, resp))

\* app.tsx:190, part_003:160-165  Login is clicked, or Upload is clicked by a
\* user who is not logged in
openLoginClick ==
    /\ ~loginOpen
    /\ \E handler \in BOOLEAN :
          /\ IF handler THEN user = NULL \/ Falsy(authToken) ELSE user = NULL
          /\ AuthStep(openLogin(AS, handler))

\* auth.tsx:262  the Username/Email input is changed
setUsername ==
    /\ loginOpen /\ ~authLoading /\ twoFactorType = NullString
    /\ \E u \in Usernames \ {username} : AuthStep([AS EXCEPT !.username = u])

\* auth.tsx:206-210  the login form is submitted
handleLogin ==
    /\ loginOpen /\ ~authLoading /\ twoFactorType = NullString
    /\ username \in Usernames
    /\ authLog.submits < MaxSubmits
    /\ AuthStep(handleLoginDone(AS))

LoginTokenResp ==
    /\ form.pc = "loadToken"
    /\ AuthStep(LoginTokenDone(AS))

LoginUserResp ==
    /\ form.pc = "getUser" /\ form.fn = "login"
    /\ \E resp \in UserResponses(form.username, SentCookie(form.token), account.issued) :
          AuthStep(LoginUserDone(AS, resp))

SaveTokenResp ==
    /\ form.pc = "saveToken"
    /\ AuthStep(SaveTokenDone(AS))

SaveConfigResp ==
    /\ form.pc = "saveConfig"
    /\ AuthStep(IF form.fn = "login" THEN LoginConfigDone(AS) ELSE TwoFactorConfigDone(AS))

\* auth.tsx:233-237  the code form is submitted
handleTwoFactor ==
    /\ loginOpen /\ ~authLoading /\ twoFactorType # NullString
    /\ authLog.submits < MaxSubmits
    /\ AuthStep(IF Falsy(authToken) THEN handleTwoFactorThrows(AS)
                ELSE handleTwoFactorDone(AS))

VerifyResp ==
    /\ form.pc = "verify"
    /\ \E resp \in VerifyResponses : AuthStep(VerifyDone(AS, resp))

TwoFactorUserResp ==
    /\ form.pc = "getUser" /\ form.fn = "twoFactor"
    /\ \E resp \in UserResponses(form.username, SentCookie(form.token), account.issued) :
          AuthStep(TwoFactorUserDone(AS, resp))

\* auth.tsx:242  the dialog is dismissed: onOpenChange(false)
closeLogin ==
    /\ loginOpen
    /\ AuthStep(handleLoginChange(AS))

\* app.tsx:183  Log out is clicked in the menu of the user
logoutClick ==
    /\ user # NULL /\ out.pc = "idle"
    /\ authLog.outs < MaxLogouts
    /\ AuthStep(logout(AS))

LogoutConfigResp ==
    /\ out.pc = "saveConfig"
    /\ AuthStep(LogoutConfigDone(AS))

DeleteTokenResp ==
    /\ out.pc = "deleteToken"
    /\ AuthStep(DeleteTokenDone(AS))

ApiLogoutResp ==
    /\ out.pc = "apiLogout"
    /\ \E ok \in BOOLEAN : AuthStep(ApiLogoutDone(AS, ok))

AuthNext ==
    \/ LoadConfigResp \/ LaunchTokenResp \/ LaunchUserResp
    \/ openLoginClick \/ setUsername \/ closeLogin
    \/ handleLogin \/ LoginTokenResp \/ LoginUserResp \/ SaveTokenResp \/ SaveConfigResp
    \/ handleTwoFactor \/ VerifyResp \/ TwoFactorUserResp
    \/ logoutClick \/ LogoutConfigResp \/ DeleteTokenResp \/ ApiLogoutResp

AuthSpec == AuthInit /\ [][AuthNext]_vars


(***************************************************************************)
(* The Set-Cookie headers of a response: one header for each cookie the    *)
(* Service sets (Headers.getSetCookie, api.ts:185, 220), read by getUser   *)
(* or by verifyTwoFactor.                                                  *)
(***************************************************************************)
MaxSetCookies == 2
CookieNames == {"auth", "twoFactorAuth"}
CookieValues == {<<"v1">>, <<"v2">>, <<"v1", "=", "v2">>, <<"v1", "=", "=">>}
CookieAttributes ==
    {<<>>,
     <<";", " ", "Path", "=", "/", ";", " ", "HttpOnly">>,
     <<";", " ", "Expires", "=", "Wed", ",", " ", "21 Oct 2026 07:28:00 GMT", ";", " ",
       "Path", "=", "/">>}
SetCookies == [name : CookieNames, value : CookieValues, attributes : CookieAttributes]
\* the text of the Set-Cookie header of a cookie
SetCookieHeader(c) == <<c.name, "=">> \o c.value \o c.attributes
HeadersOf(sent) == [i \in 1..Len(sent) |-> SetCookieHeader(sent[i])]

CookieInit ==
    /\ \E n \in 1..MaxSetCookies : \E sent \in [1..n -> SetCookies] :
          jar = [IdleJar EXCEPT !.sent = sent]
    /\ bundlePath = NULL /\ bundle = NULL /\ transcodes = {} /\ error = NULL
    /\ loadpc = "idle" /\ loadArg = NULL /\ loadDir = 0
    /\ tstatus = [p \in Platform |-> "none"] /\ torder = <<>>
    /\ service = [avatar |-> NULL, files |-> 0, before |-> NULL]
    /\ showBundle = FALSE /\ showTimers = 0 /\ finishTimers = 0 /\ closed = FALSE
    /\ dirs = {} /\ removed = {} /\ loads = 0
    /\ pub = IdlePub /\ job = IdleJob
    /\ parts = IdleParts
    /\ AuthIdle

\* api.ts:183-189  getUser reads the auth cookie of the response
GetUserCookies ==
    /\ jar.fn = "none"
    /\ jar' = [jar EXCEPT !.fn = "getUser",
                          !.result = getUserAuthToken(HeadersOf(jar.sent))]
    /\ UNCHANGED <<uploaderVarsButJar, authVars>>

\* api.ts:220-225  verifyTwoFactor reads the twoFactorAuth cookie of the response
VerifyCookies ==
    /\ jar.fn = "none"
    /\ jar' = [jar EXCEPT !.fn = "verifyTwoFactor",
                          !.result = verifyTwoFactorCookie(HeadersOf(jar.sent))]
    /\ UNCHANGED <<uploaderVarsButJar, authVars>>

CookieNext == GetUserCookies \/ VerifyCookies

CookieSpec == CookieInit /\ [][CookieNext]_vars


(***************************************************************************)
(* The parts of a multipart upload: one publication of a one-platform      *)
(* bundle, with the file sizes around the multiples of partSize and every  *)
(* request of the loop of uploadFile written down with the byte range it   *)
(* carries.                                                                *)
(***************************************************************************)
MaxRangeParts == 3
RangeSizes ==
    {0, 1} \cup {k * partSize + d : k \in 1..(MaxRangeParts - 1), d \in {-1, 0, 1}}
           \cup {MaxRangeParts * partSize}

PartsInit ==
    /\ PubInit
    /\ bundlePath = GoodArchive({"windows"}, {})

\* upload-avatar.ts:102-121  createFileVersion answered: uploadFile runs up to
\* the startFileUpload of part 1
CreatePartsResp ==
    /\ ~closed /\ job.pc = "create"
    /\ \/ \E c \in Categories :
            \E size \in (IF c = "multipart" THEN RangeSizes ELSE {0}) :
               /\ Assign(CreateOk(S, c, size))
               /\ parts' = [size |-> size,
                            calls |-> IF c = "multipart" /\ job'.uf = "start"
                                      THEN <<StartCall(job'.partNumber)>> ELSE <<>>,
                            category |-> c,
                            requests |-> FileRequests(job, job')
                                            \cup {startFileUpload("signature", {})}]
       \/ Step(Catch(S, "createFileVersion"))
    /\ UNCHANGED <<tstatus, torder>>

\* upload-avatar.ts:121-122  startFileUpload answered: upload_file is invoked
\* with the start and the length of the part
PartStartResp ==
    /\ ~closed /\ job.uf = "start"
    /\ \/ /\ Assign(FileStartOk(S))
          /\ parts' = IF job.category = "multipart"
                      THEN [parts EXCEPT !.calls = Append(@, PutCall(job.partNumber, parts.size))]
                      ELSE parts
       \/ Step(TaskFail(S, "file", "startFileUpload"))
    /\ UNCHANGED <<tstatus, torder>>

\* upload-avatar.ts:116-132  upload_file answered: the etag is stored, then the
\* next part is started or the upload is finished
PartPutResp ==
    /\ ~closed /\ job.uf = "put"
    /\ \/ /\ job.category = "multipart"
          /\ \E etag \in EtagResponses :
                /\ Assign(UploadPartOk(S, etag))
                /\ parts' = [parts EXCEPT !.calls =
                                Append(@, EtagAnswer(job.partNumber, etag))
                                    \o (IF job'.uf = "start"
                                        THEN <<StartCall(job'.partNumber)>> ELSE <<>>),
                                          !.requests = @ \cup FileRequests(job, job')]
       \/ /\ job.category # "multipart"
          /\ Assign(UploadSimpleOk(S))
          /\ parts' = [parts EXCEPT !.requests = @ \cup FileRequests(job, job')]
       \/ Step(TaskFail(S, "file", "upload"))
    /\ UNCHANGED <<tstatus, torder>>

\* upload-avatar.ts:149-154  the PUT of the signature answered: its
\* finishFileUpload is sent
PartSigPutResp ==
    /\ ~closed /\ job.us = "put"
    /\ \/ /\ Assign(SigPutOk(S))
          /\ parts' = [parts EXCEPT !.requests =
                                       @ \cup {finishFileUpload("signature", {})}]
       \/ Step(TaskFail(S, "signature", "upload"))
    /\ UNCHANGED <<tstatus, torder>>

PartsNext ==
    \/ handleUpload \/ GetAvatarResp \/ AcquireResp \/ DigestResp \/ DeleteResp
    \/ CreatePartsResp \/ PartStartResp \/ PartPutResp \/ FileFinishResp
    \/ SigStartResp \/ PartSigPutResp \/ SigFinishResp \/ ShowResp
    \/ UpsertResp \/ UpdateResp

PartsSpec == PartsInit /\ [][PartsNext]_vars


(***************************************************************************)
(* Properties of the multipart upload.                                     *)
(***************************************************************************)
\* finishFileUpload(.., "file", {etags}) of a multipart upload is in flight
FinishInFlight == job.category = "multipart" /\ job.uf = "finish"

\* C1: when finishFileUpload is called in a multipart upload of N parts, etags
\* has length N and each of its slots holds a non-empty string, whatever the
\* PUTs of the parts answered
C1_EtagsFilled ==
    FinishInFlight =>
        /\ Len(job.etags) = job.maxParts
        /\ \A i \in 1..Len(job.etags) : job.etags[i] # Hole /\ job.etags[i] # <<>>

\* C2: finishFileUpload for "file" is called only after the PUT of every part
\* 1..N was answered with success, and at most once per file upload
C2_FinishAfterAllParts ==
    /\ job.finishFile <= 1
    /\ job.finishFile = 1 => job.uf \in {"finish", "done", "failed"}
    /\ FinishInFlight => job.acked = 1..job.maxParts

\* a file of MaxParts parts has had all its parts stored and is being finished
C2_Witness ==
    FinishInFlight /\ job.maxParts = MaxParts /\ job.acked = 1..MaxParts /\ job.finishFile = 1

(***************************************************************************)
(* Properties of the progress events of a publication.                     *)
(***************************************************************************)
\* the events before the closing error event, if the last event is one
EventsBody ==
    IF pub.events # <<>> /\ Last(pub.events).type = "error"
    THEN SubSeq(pub.events, 1, Len(pub.events) - 1) ELSE pub.events

\* C3: the events of a publication are init, thumbnail, waiting, bundle events
\* and completed in that order, or a prefix of that followed by error; waiting
\* is not emitted before the avatar request was answered
C3_EventOrder ==
    /\ \A i \in 1..Len(EventsBody) :
          LET t == EventsBody[i].type
          IN  CASE i = 1 -> t = "init"
                [] i = 2 -> t = "thumbnail"
                [] i = 3 -> t = "waiting"
                [] OTHER -> t = "bundle" \/ (t = "completed" /\ i = Len(EventsBody))
    /\ (\E i \in 1..Len(pub.events) : pub.events[i].type = "waiting") => pub.upsertReturned

\* C4: a failed publication has exactly one error event, no completed event,
\* and the error event is its last event
C4_ErrorIsLast ==
    LET errors == {i \in 1..Len(pub.events) : pub.events[i].type = "error"}
    IN  /\ pub.pc = "error" <=> Cardinality(errors) = 1
        /\ Cardinality(errors) <= 1
        /\ errors # {} => \A i \in 1..Len(pub.events) : pub.events[i].type # "completed"
        /\ \A i \in errors : i = Len(pub.events)

\* C5: once a publication has failed it issues no further request and no PUT
C5_NoRequestAfterFailure == pub.late = {}

(***************************************************************************)
(* Properties of the reconcile step.                                       *)
(***************************************************************************)
\* C6: while createFileVersion is in flight, the latest version the file was
\* shown with is complete and no deleteFileVersion was issued, or it is not
\* complete and deleteFileVersion on it was answered
C6_ReconcileBeforeCreate ==
    job.pc = "create" =>
        /\ Len(job.versions) > 0
        /\ IF Last(job.versions) = "complete" THEN ~job.deleted ELSE job.deleted

\* createFileVersion is in flight on a reused file whose latest version was
\* not complete and has been deleted
C6_Witness ==
    /\ job.pc = "create" /\ job.reuse
    /\ Last(job.versions) \in {"none", "queued"} /\ job.deleted

(***************************************************************************)
(* Properties of the unpack directory.                                     *)
(***************************************************************************)
\* C7: after a close request that arrived while a bundle was loaded, removal
\* of the unpack directory of that bundle has been triggered
C7_CloseRemovesDir ==
    (closed /\ bundle # NULL) => bundle.unpackPath \in removed

\* C8: when the loader is back in the empty state, no directory an archive
\* was extracted to is left
C8_FailedLoadRemovesDir ==
    (~closed /\ bundlePath = NULL /\ bundle = NULL /\ error = NULL /\ loadpc = "idle")
        => dirs = {}

\* C9: after a publication ended with an error event the bundle stays loaded
\* and its unpack directory is not removed
C9_BundleStaysAfterError ==
    (~closed /\ pub.pc = "error") => (bundle # NULL /\ bundle.unpackPath \in dirs)

\* C10: completed is emitted only after, for every platform the manifest
\* declares, exactly one updateAvatar with that platform's asset url, token,
\* unity version and asset version 1 was answered
C10_CompletedAfterAllPlatforms ==
    pub.pc = "completed" =>
        \A p \in pub.rb.bundle.assetBundles :
            /\ Cardinality({i \in 1..Len(pub.updates) :
                               pub.updates[i].platform = UnityPlatform(p)}) = 1
            /\ \E i \in 1..Len(pub.updates) : pub.updates[i] = UpdateBody(p, p)


(***************************************************************************)
(* Properties of the avatar request of a publication.                      *)
(***************************************************************************)
\* C11: a publication issues at most one createAvatar / updateAvatar(name,
\* imageUrl), after the thumbnail upload and before any bundle upload; it is
\* updateAvatar when getAvatar returned an avatar and createAvatar with the
\* blueprint id, "private" and "2022.3.6f1" otherwise
C11_OneUpsert ==
    /\ Len(pub.upserts) <= 1
    /\ pub.upserts # <<>> =>
          /\ pub.upserts[1] = IF pub.lookup = 200 THEN UpdateAvatarReq("thumbnail")
                                                  ELSE CreateAvatarReq("thumbnail")
          /\ job.kind = "thumbnail" => job.pc = "done"
    /\ job.kind \in Platform => Len(pub.upserts) = 1 /\ pub.upsertReturned

\* the first bundle upload runs after a createAvatar was issued and answered
C11_Witness ==
    /\ job.kind \in Platform /\ job.pc = "acquire"
    /\ Len(pub.upserts) = 1 /\ pub.upserts[1].op = "createAvatar"
    /\ pub.lookup = 404


\* C12: after getAvatar answered 404 the publication goes on without an error
\* event for it: thumbnail is emitted, the thumbnail file is made by
\* createFile and the avatar request is createAvatar
C12_NotFoundContinues ==
    pub.lookup = 404 =>
        /\ Len(pub.events) >= 2 /\ pub.events[2].type = "thumbnail"
        /\ job.kind # "none"
        /\ job.kind = "thumbnail" => ~job.reuse
        /\ pub.upserts # <<>> => pub.upserts[1].op = "createAvatar"

\* getAvatar answered 404 and the publication has reached completed
C12_Witness ==
    pub.lookup = 404 /\ pub.pc = "completed" /\ pub.updates # <<>>

\* C13: a getAvatar failure other than 404 ends the publication with an error
\* event; no createFile and no createAvatar is issued after it
C13_LookupFailureAborts ==
    pub.lookup \notin {0, 200, 404} =>
        /\ pub.pc = "error"
        /\ job.kind = "none"
        /\ pub.upserts = <<>>


\* the message of the error event of a publication that ended at its avatar request
UpsertErrorMessage == Last(pub.events).msg

\* C14 (as the code has it): after getAvatar answered 404 and createAvatar
\* answered 500 the publication ends with an error event whose message is
\* "Blueprint ID already in use: Avatar bundle has already been uploaded";
\* a createAvatar failure with another status surfaces the Service's error
C14_BlueprintIdTaken ==
    (pub.lookup = 404 /\ pub.upsertStatus \notin {0, 200}) =>
        /\ pub.pc = "error" /\ Last(pub.events).type = "error"
        /\ UpsertErrorMessage = IF pub.upsertStatus = 500
                                THEN BlueprintIdTakenMessage
                                ELSE VRChatErrorMessage(pub.upsertStatus)

\* getAvatar answered 404 and createAvatar answered 500
C14_Witness ==
    pub.lookup = 404 /\ pub.upsertStatus = 500 /\ pub.pc = "error"

\* C14 (as stated): the message is exactly "Blueprint ID already in use"
C14_ExactMessage ==
    (pub.lookup = 404 /\ pub.upsertStatus \notin {0, 200}) =>
        /\ pub.pc = "error" /\ Last(pub.events).type = "error"
        /\ UpsertErrorMessage = IF pub.upsertStatus = 500
                                THEN "Blueprint ID already in use"
                                ELSE VRChatErrorMessage(pub.upsertStatus)


(***************************************************************************)
(* Properties of one file upload.                                          *)
(***************************************************************************)
\* C15: the final showFile is issued, and a url returned, only after both
\* finishFileUpload("file") and finishFileUpload("signature") were answered
\* with success; when either task failed no url is returned and no avatar
\* request is issued with a url of that version
C15_UrlAfterBothFinished ==
    /\ job.pc = "show" => job.uf = "done" /\ job.us = "done"
    /\ pub.pc \in {"upsert", "update"} => job.pc = "done"
    /\ (job.uf = "failed" \/ job.us = "failed") =>
          /\ job.pc = "failed" /\ pub.pc = "error"
          /\ job.kind = "thumbnail" => pub.upserts = <<>>
          /\ \A i \in 1..Len(pub.updates) : pub.updates[i].assetUrl # job.kind

\* the final showFile of a bundle file is in flight after a multipart upload
C15_Witness ==
    /\ job.pc = "show" /\ job.kind \in Platform /\ job.category = "multipart"
    /\ job.uf = "done" /\ job.us = "done" /\ job.finishFile = 1


\* C16: when startFileUpload or the PUT of part i of a multipart upload has
\* failed, no later part was started, finishFileUpload("file") was not called
\* for the version, and the file upload has thrown
C16_PartFailureStops ==
    (job.category = "multipart" /\ job.uf = "failed" /\ job.acked # 1..job.maxParts) =>
        /\ job.acked = 1..(job.partNumber - 1)
        /\ job.partNumber <= job.maxParts
        /\ job.finishFile = 0
        /\ job.pc = "failed" /\ pub.pc = "error"

\* part 1 of a file of MaxParts parts has failed
C16_Witness ==
    /\ job.category = "multipart" /\ job.uf = "failed"
    /\ job.maxParts = MaxParts /\ job.partNumber = 1 /\ job.acked = {}


(***************************************************************************)
(* Properties of readyBundle.                                              *)
(***************************************************************************)
\* the position of platform p in the sequence q (0: not in it)
Position(q, p) == IF \E i \in 1..Len(q) : q[i] = p
                  THEN CHOOSE i \in 1..Len(q) : q[i] = p ELSE 0

\* C17: the transcoded platforms are yielded in the order in which their
\* transcodes completed
C17_CompletionOrder ==
    \A a, b \in pub.done \cap bundle.z :
        Position(torder, a) < Position(torder, b)
            => Position(pub.yields, a) < Position(pub.yields, b)


\* C18: a publication of a bundle of which the transcode of a declared
\* platform has failed does not emit completed
C18_TranscodeFailureIsError ==
    pub.pc = "completed" => \A p \in pub.rb.bundle.assetBundles : tstatus[p] # "rejected"

\* C20: when getAvatar found the avatar, no createFile is issued for the
\* thumbnail, whose upload uses the file id of the avatar's thumbnailImageUrl;
\* createFile is issued for the bundle of exactly the platforms reached for
\* which the avatar has no unity package of variant "standard", and the upload
\* of every other platform uses the file id of that package's assetUrl.
C20_ReuseExistingFiles ==
    pub.lookup = 200 =>
        /\ "thumbnail" \notin pub.created
        /\ \A p \in Platform :
              p \in pub.created <=>
                  (p \in pub.done /\ existingFile(pub.avatar, UnityPlatform(p)) = NULL)
        /\ (job.pc # "idle" /\ job.kind = "thumbnail") =>
              job.fileId = pub.avatar.thumbnailFile
        /\ \A p \in Platform \ pub.created :
              (job.pc # "idle" /\ job.kind = p) =>
                  job.fileId = existingFile(pub.avatar, UnityPlatform(p)).assetFile

\* a publication against an existing avatar has completed, with the bundle of
\* one platform uploaded as a version of the avatar's file and the bundle of
\* another, which the avatar has no standard package for, as a new file
C20_Witness ==
    /\ pub.lookup = 200 /\ pub.pc = "completed"
    /\ pub.created # {}
    /\ pub.done \ pub.created # {}

\* C19: when a publication of a file is followed by a second publication of
\* the same file, the avatar record at the end of the second is the one at
\* the end of the first (same thumbnail file id, same packages with the same
\* asset file ids) and the Service has no more files than it had.
C19_SecondPublicationSame ==
    (service.before # NULL /\ pub.pc = "completed") =>
        /\ service.avatar = service.before.avatar
        /\ service.files = service.before.files

\* C21: while a publication is in flight (the window open, the avatar shown,
\* upload() not yet ended) a cancellation is accepted: Cancel can be clicked.
C21_CancelAccepted ==
    (~closed /\ AvatarShown /\ pub.pc \notin {"idle", "completed", "error"})
        => ENABLED handleCancel

\* C22: once the login dialog is closed with nobody logged in and no login,
\* verification or logout running, no partial auth cookie is left: authToken
\* and twoFactorType are null and a logout request was sent with every auth
\* cookie that came with a two-factor answer.
C22_CancelLeavesNoCookie ==
    (~loginOpen /\ user = NULL /\ form.pc = "idle" /\ out.pc = "idle")
        => /\ Falsy(authToken)
           /\ twoFactorType = NullString
           /\ authLog.partial \subseteq authLog.logouts

\* the saveToken calls made for the form submitted last
SavesOfSubmit == {i \in DOMAIN authLog.saves : authLog.saves[i].submit = authLog.submits}

\* C23: twoFactor() writes the credential store once, after its getUser with
\* the cookies returned a User, with the auth cookie the code was submitted
\* with and the twoFactorAuth cookie of the verification: nothing is written while
\* the verification or that getUser is awaited, nor when one of them fails;
\* after that one write is made and the store holds that token.
C23_StoreWrittenOnce ==
    /\ \A i \in DOMAIN authLog.saves :
          (authLog.saves[i].by = "twoFactor" /\ authLog.saves[i].token.twoFactor # NULL)
              => /\ authLog.saves[i].token.auth \in {Cookie(n) : n \in 1..account.issued}
                 /\ authLog.saves[i].token.twoFactor = TwoFactorCookie
    /\ \A i, j \in DOMAIN authLog.saves :
          authLog.saves[i].submit = authLog.saves[j].submit => i = j
    /\ (form.fn = "twoFactor" /\ form.pc \in {"verify", "getUser"}) => SavesOfSubmit = {}
    /\ authError = "Two-factor authentication failed. Please try again."
          => SavesOfSubmit = {}
    /\ (form.fn = "twoFactor" /\ form.pc \in {"saveToken", "saveConfig"})
          => /\ \E i \in SavesOfSubmit :
                   /\ SavesOfSubmit = {i}
                   /\ authLog.saves[i].token = form.token
                   /\ authLog.saves[i].token.auth = form.authToken
                   /\ authLog.saves[i].username = form.username
             /\ (form.pc = "saveConfig" /\ form.username \notin authLog.deletes)
                   => tokens[form.username] = form.token

\* a two-factor login is over: the user is logged in and the store holds the
\* auth cookie of the two-factor answer and the twoFactorAuth cookie
C23_Witness ==
    /\ user # NULL /\ form.pc = "idle" /\ authLog.submits = 2
    /\ \E i \in DOMAIN authLog.saves :
          /\ authLog.saves[i].by = "twoFactor"
          /\ authLog.saves[i].token.auth \in authLog.partial
          /\ authLog.saves[i].token.twoFactor = TwoFactorCookie
          /\ tokens[authLog.saves[i].username] = authLog.saves[i].token

\* C24: when getUser answers login() with 401, login() returns (it does not
\* throw), the message "Invalid username or password" is shown, loading is
\* false again, and user, authToken, twoFactorType, the dialog, the
\* credential store and the config file are what they were.
C24_InvalidCredentials ==
    [][(form.fn = "login" /\ form.pc = "getUser" /\ form'.status = 401)
          => /\ form'.pc = "idle" /\ form'.result = "returned"
             /\ authError' = "Invalid username or password"
             /\ authLoading' = FALSE
             /\ user' = user /\ authToken' = authToken /\ twoFactorType' = twoFactorType
             /\ loginOpen' = loginOpen
             /\ tokens' = tokens /\ config' = config
             /\ authLog'.saves = authLog.saves /\ authLog'.configs = authLog.configs]_vars

\* a login was answered 401: the dialog is open on the credentials form with
\* the message, nobody is logged in and nothing was written
C24_Witness ==
    /\ form.pc = "idle" /\ form.status = 401
    /\ loginOpen /\ authError = "Invalid username or password" /\ ~authLoading
    /\ user = NULL /\ twoFactorType = NullString
    /\ authLog.saves = <<>> /\ authLog.configs = <<>>

\* C25: when logout() ends it returns, whatever the Service answered the
\* logout request with, and user and authToken are null, lastUsername in the
\* config is null and the store holds no token for the user who logged out.
C25_LogoutBestEffort ==
    [][(out.pc # "idle" /\ out'.pc = "idle")
          => /\ out'.result = "returned"
             /\ user' = NULL /\ authToken' = NULL
             /\ config' = [lastUsername |-> NullString]
             /\ tokens'[out.user.username] = NULL]_vars

\* C26: a bundle that is loaded declares at least one platform, and a
\* publication that has emitted completed has uploaded the bundle of at
\* least one platform.
C26_AtLeastOnePlatform ==
    /\ bundle # NULL => bundle.assetBundles # {}
    /\ pub.pc = "completed" => pub.updates # <<>>


(***************************************************************************)
(* The byte ranges of a multipart upload.                                  *)
(***************************************************************************)
CallsOf(op) == SelectSeq(parts.calls, LAMBDA c : c.op = op)

\* C27: for every file size the byte ranges [start, start + length) of the
\* parts sent so far each have a length between 1 and partSize, follow one
\* another without gap or overlap from byte 0 and stay inside the file; when
\* finishFileUpload is called there are N = ceil(size / partSize) of them and
\* they end at the size of the file, so that their union is [0, size);
\* startFileUpload is called with partNumber 1, 2, .. in that order, and an
\* etag answered for part i is found at etags[i - 1] (the i-th slot).
C27_PartRanges ==
    LET puts == CallsOf("upload_file")
        starts == CallsOf("startFileUpload")
        answers == CallsOf("etag")
        N == Ceil(parts.size, partSize)
        running == job.category = "multipart" /\ job.uf \in {"start", "put", "finish", "failed"}
    IN  /\ \A i \in 1..Len(puts) :
              /\ puts[i].length \in 1..partSize
              /\ puts[i].start = (IF i = 1 THEN 0 ELSE puts[i - 1].start + puts[i - 1].length)
              /\ puts[i].start + puts[i].length <= parts.size
              /\ \A j \in 1..(i - 1) : puts[j].start + puts[j].length <= puts[i].start
        /\ Len(starts) <= N
        /\ \A i \in 1..Len(starts) : starts[i].partNumber = i
        /\ \A i \in 1..Len(puts) : puts[i].partNumber = i
        /\ (running /\ job.uf = "finish") =>
              /\ Len(puts) = N /\ Len(starts) = N
              /\ IF N = 0 THEN parts.size = 0
                 ELSE puts[N].start + puts[N].length = parts.size
        /\ running =>
              \A i \in 1..Len(answers) :
                 answers[i].etag # <<>> =>
                    job.etags[answers[i].partNumber] = StripQuotes(answers[i].etag)

\* three parts were sent for a file one byte longer than two parts, the last
\* of them one byte long, and their etags are stored
C27_Witness ==
    /\ job.category = "multipart" /\ job.uf = "finish"
    /\ parts.size = 2 * partSize + 1
    /\ Len(CallsOf("upload_file")) = 3
    /\ CallsOf("upload_file")[3] = [op |-> "upload_file", partNumber |-> 3,
                                    start |-> 2 * partSize, length |-> 1]
    /\ \A i \in 1..3 : job.etags[i] = <<"e">>

(***************************************************************************)
(* The progress callback of a file upload.                                 *)
(***************************************************************************)
\* upload-avatar.ts:64-66  the calls of the callback given to the upload of the
\* platform in hand: each one is a "bundle" event carrying platformIndex
ProgressCalls ==
    LET evs == SelectSeq(pub.events, LAMBDA e : e.type = "bundle"
                                                   /\ e.platformIndex = pub.platformIndex)
    IN  [i \in 1..Len(evs) |-> [part |-> evs[i].part, totalParts |-> evs[i].totalParts]]
\* (0, N), (1, N), .., (n - 1, N)
ProgressUpTo(n, N) == [i \in 1..n |-> [part |-> i - 1, totalParts |-> N]]

\* C28: the callback of a multipart upload of N parts has received (0,N) ..
\* (n-1,N), in that order and nothing else, when part n is started or sent,
\* all of (0,N) .. (N-1,N) and no (N,N) while finishFileUpload is awaited or
\* once a request has failed, and (0,N) .. (N,N) once finishFileUpload was
\* answered; the callback of a simple upload has received (0,1) until
\* finishFileUpload is answered and (0,1), (1,1) after; part <= totalParts
\* in every call.
C28_ProgressOrder ==
    LET calls == ProgressCalls
    IN  job.kind \in Platform =>
          /\ \A i \in 1..Len(calls) : calls[i].part <= calls[i].totalParts
          /\ (job.category = "none" /\ job.pc # "done") => calls = <<>>
          /\ job.category = "multipart" =>
                /\ job.uf \in {"start", "put"} =>
                      calls = ProgressUpTo(job.partNumber, job.maxParts)
                /\ job.uf = "finish" => calls = ProgressUpTo(job.maxParts, job.maxParts)
                /\ job.uf = "failed" =>
                      \E n \in 0..job.maxParts : calls = ProgressUpTo(n, job.maxParts)
                /\ job.uf = "done" =>
                      /\ Len(calls) >= 1
                      /\ calls = ProgressUpTo(calls[1].totalParts + 1, calls[1].totalParts)
          /\ job.category \in {"simple", "queued"} =>
                /\ job.uf \in {"start", "put", "finish", "failed"} =>
                      calls = ProgressUpTo(1, 1)
                /\ job.uf = "done" => calls = ProgressUpTo(2, 1)

\* a multipart upload of two parts of a bundle has been finished
C28_Witness ==
    /\ job.kind \in Platform /\ job.category = "multipart" /\ job.uf = "done"
    /\ ProgressCalls = <<[part |-> 0, totalParts |-> 2], [part |-> 1, totalParts |-> 2],
                         [part |-> 2, totalParts |-> 2]>>

(***************************************************************************)
(* The order of the requests of a publication.                             *)
(***************************************************************************)
\* C29: once the avatar create/update has been issued the thumbnail upload
\* has returned the URL the request carries; a bundle upload runs only when
\* the avatar create/update has been answered; the updateAvatar of a platform
\* is in flight only when the upload of that platform's bundle has returned,
\* and the updateAvatar requests answered so far are those of the platforms
\* handed out before the one whose bundle is being uploaded, in that order.
C29_Sequence ==
    /\ pub.upserts # <<>> =>
          /\ job.kind # "none"
          /\ job.kind = "thumbnail" => (job.pc = "done" /\ job.fileId # 0)
          /\ pub.upserts[1].body.imageUrl = "thumbnail"
    /\ job.kind \in Platform =>
          /\ pub.upserts # <<>>
          /\ pub.upsertReturned /\ pub.upsertStatus = 200
    /\ pub.pc = "update" =>
          /\ job.kind = pub.cur /\ job.pc = "done" /\ job.fileId # 0
          /\ Len(pub.updates) = Len(pub.yields) - 1
    /\ Len(pub.updates) <= Len(pub.yields)
    /\ \A i \in 1..Len(pub.updates) :
          /\ pub.updates[i].platform = UnityPlatform(pub.yields[i])
          /\ pub.updates[i].assetUrl = pub.yields[i]
    /\ (job.kind \in Platform /\ job.pc # "done") =>
          Len(pub.updates) = Len(pub.yields) - 1

\* a publication of two platforms has completed
C29_Witness ==
    /\ pub.pc = "completed"
    /\ Len(pub.upserts) = 1 /\ pub.upsertReturned
    /\ Len(pub.updates) = 2

(***************************************************************************)
(* The reconcile step on a file createFile has just made.                  *)
(***************************************************************************)
\* C30: when the digests and the signature of a file that createFile answered
\* with an empty versions list are done, the upload goes on to
\* createFileVersion: no deleteFileVersion is issued and no error is raised.
C30_FreshFileProceeds ==
    [][(/\ job.pc = "digest" /\ ~job.reuse /\ job.versions = <<>>
        /\ job'.pc # "digest"
        /\ Last(pub'.events) # ErrorEv("digest"))
          => (job'.pc = "create" /\ pub'.pc # "error")]_vars

(***************************************************************************)
(* The multipart-only parameters.                                          *)
(***************************************************************************)
\* C31: of the requests sent for a file version, a start request has a
\* partNumber in its query and a finish request has a body with etags exactly
\* when it is for the subresource "file" of a version of category
\* "multipart"; the requests of a simple or queued file and all the requests
\* of the signature have neither.
C31_MultipartParameters ==
    \A r \in parts.requests :
       LET multipartFile == r.fileType = "file" /\ parts.category = "multipart"
       IN  /\ r.fn = "start" =>
                /\ (r.query # {}) <=> multipartFile
                /\ \A q \in r.query : q.key = "partNumber" /\ q.value >= 1
           /\ r.fn = "finish" =>
                /\ (r.body # {}) <=> multipartFile
                /\ \A b \in r.body : DOMAIN b = {"etags"}

\* a multipart file and its signature have both been finished: every part was
\* started with its number, the signature without one
C31_Witness ==
    /\ parts.category = "multipart" /\ parts.size = partSize + 1
    /\ job.uf = "done" /\ job.us = "done"
    /\ {r \in parts.requests : r.fn = "start" /\ r.fileType = "file"}
          = {startFileUpload("file", {1}), startFileUpload("file", {2})}
    /\ startFileUpload("signature", {}) \in parts.requests
    /\ finishFileUpload("signature", {}) \in parts.requests
    /\ \E r \in parts.requests : r.fn = "finish" /\ r.fileType = "file" /\ r.body # {}

(***************************************************************************)
(* The cookies read from the Set-Cookie headers.                           *)
(***************************************************************************)
\* the value the Service gave the cookie of that name (the last one, if it
\* set the cookie more than once)
ValueSet(sent, name) ==
    LET is == {i \in 1..Len(sent) : sent[i].name = name}
    IN  sent[CHOOSE i \in is : \A j \in is : j <= i].value

\* C32: for every list of Set-Cookie headers, getUser reads as authToken
\* exactly the value the headers give the cookie auth and verifyTwoFactor
\* returns exactly the value they give the cookie twoFactorAuth, with one or
\* several headers, with attributes that hold commas and with values that
\* hold "=".
C32_CookiesParsed ==
    /\ (jar.fn = "getUser" /\ \E i \in 1..Len(jar.sent) : jar.sent[i].name = "auth")
          => jar.result = ValueSet(jar.sent, "auth")
    /\ (jar.fn = "verifyTwoFactor"
           /\ \E i \in 1..Len(jar.sent) : jar.sent[i].name = "twoFactorAuth")
          => jar.result = ValueSet(jar.sent, "twoFactorAuth")

(***************************************************************************)
(* The unpack directory under a running publication.                       *)
(***************************************************************************)
\* a task of the file upload has still to read the file or its signature
\* from the unpack directory: the digests and the signature generation, or a
\* PUT of the file or of the signature that is not sent or not answered yet
ReadsUnpackDir ==
    \/ job.pc = "digest"
    \/ job.uf \in {"start", "put"}
    \/ job.us \in {"start", "put"}

\* C33: while a task of a publication has still to read from the unpack
\* directory of its bundle, that directory has not been removed; this holds
\* after the publication has reported an error and during the transition
\* that follows its end.
C33_DirKeptWhileRead ==
    (pub.rb # NULL /\ ReadsUnpackDir) => pub.rb.bundle.unpackPath \in dirs

(***************************************************************************)
(* One publication of a loaded bundle at a time.                           *)
(***************************************************************************)
\* C34: once a publication of the loaded bundle has been started, Upload
\* cannot be clicked again: not while the publication runs, and not after it
\* has finished (completed or error) for as long as the bundle is loaded.
C34_OnePublication ==
    pub.pc # "idle" => ~UploadEnabled

(***************************************************************************)
(* The user and the auth cookie of the provider.                           *)
(***************************************************************************)
\* C35: whenever the provider has a user it has an auth cookie, also when the
\* dialog was closed while a request of login() or twoFactor() was awaited
\* and the request succeeds afterwards.
C35_UserHasToken ==
    user # NULL => ~Falsy(authToken)

(***************************************************************************)
(* The handler registered by openLogin.                                    *)
(***************************************************************************)
\* C36: a step that calls the onLogin handler calls it once, with the user
\* and the auth cookie of the provider, both set, and leaves no handler
\* registered, so that it is not called again; a step that closes the dialog
\* by hand leaves no handler registered either, so that none is called after.
C36_HandlerOnce ==
    [][/\ Len(authLog'.handled) > Len(authLog.handled) =>
             /\ Len(authLog'.handled) = Len(authLog.handled) + 1
             /\ Last(authLog'.handled).user # NULL
             /\ Last(authLog'.handled).user = user'
             /\ ~Falsy(Last(authLog'.handled).authToken)
             /\ Last(authLog'.handled).authToken = authToken'
             /\ ~onLogin'
       /\ (loginOpen /\ ~loginOpen' /\ form' = form /\ launch' = launch /\ out' = out) =>
             /\ ~onLogin'
             /\ authLog'.handled = authLog.handled
       /\ (~onLogin /\ ~onLogin') => authLog'.handled = authLog.handled]_vars

\* a handler was registered, the login went through the two-factor code, and
\* the handler was called with the user and the auth cookie
C36_Witness ==
    /\ Len(authLog.handled) = 1 /\ ~onLogin
    /\ authLog.handled[1].authToken \in authLog.partial
    /\ authLog.handled[1].user = user
    /\ form.fn = "twoFactor"

(***************************************************************************)
(* The state of the bundle reducer.                                        *)
(***************************************************************************)
\* the bundle of the state is what unpack gives for the bundlePath of the state
BundleOfPath ==
    bundle # NULL =>
        /\ bundlePath # NULL
        /\ unpack(bundlePath, bundle.unpackPath).error = NULL
        /\ bundle = unpack(bundlePath, bundle.unpackPath).bundle
\* the transcodes of the state are those of the bundle of the state: none
\* without a bundle
TranscodesOfBundle ==
    /\ bundle = NULL => transcodes = {}
    /\ bundle # NULL => transcodes \subseteq bundle.z
\* a directory unpack_bundle has made is the one of the bundle of the state,
\* or it has been removed
DirsOfBundle ==
    \A d \in dirs : bundle # NULL /\ d = bundle.unpackPath

\* C37: in every state of the bundle reducer a bundle that is not null is the
\* result of unpacking the bundlePath of the state, the transcodes are those
\* of that bundle (what an earlier load has set does not outlive a later
\* load_bundle or unload_bundle), and every directory an unpack has made is
\* the unpackPath of the bundle of the state or has been removed.
C37_BundleOfCurrentPath ==
    BundleOfPath /\ TranscodesOfBundle /\ DirsOfBundle

====
